---- MODULE Spec2Model ----
(***************************************************************************)
(* A model of tuistory's Session (src/src/session.ts): the PTY data         *)
(* handler with its 60 ms idle debounce, the quiescence and first-data      *)
(* waiters, the key codec, resize and close, and the relay's press and      *)
(* close commands (src/unnamed/part_001).                                   *)
(*                                                                          *)
(* Strings are sequences of code points, so that toLowerCase, the key       *)
(* tables and the escape sequences are computed as the code computes them.  *)
(* Time is in milliseconds.  A timer is the number of milliseconds left     *)
(* until it fires; NoTimer marks a timer that was cleared or has fired.     *)
(***************************************************************************)
EXTENDS Integers, Sequences, FiniteSets, TLC

\* ---------------------------------------------------------------- bounds
MaxWaiters == 2
MaxChunks == 2
MaxStream == 9
MaxWrites == 2
MaxCloses == 2
MaxKeys == 2
MaxSpans == 2

\* ------------------------------------------------------ program constants
IDLE_DEBOUNCE == 60
INITIAL_IDLE_FALLBACK == 20
DEFAULT_IDLE_TIMEOUT == 500
DEFAULT_COLS == 80
DEFAULT_ROWS == 24

NoTimer == 0 - 1
Undefined == 0

\* The clock advances in steps of at most Quantum and never past a timer.
Quantum == IDLE_DEBOUNCE \div 3

\* Timeouts the callers pass: one below the debounce, one above it.
Timeouts == {INITIAL_IDLE_FALLBACK, 80}
Sizes == {<<DEFAULT_COLS, DEFAULT_ROWS>>, <<40, 10>>, <<120, 40>>}
Chunks == {"x"}

Min(a, b) == IF a <= b THEN a ELSE b
Range(s) == {s[i] : i \in 1..Len(s)}

\* ------------------------------------------------------------- key tables
LETTERS == [i \in 1..26 |-> <<96 + i>>]
DIGITS == [i \in 1..10 |-> <<47 + i>>]

\* enter return esc escape tab space backspace delete insert up down left
\* right home end pageup pagedown clear linefeed f1 .. f12
SPECIAL_KEYS ==
  << <<101, 110, 116, 101, 114>>,
     <<114, 101, 116, 117, 114, 110>>,
     <<101, 115, 99>>,
     <<101, 115, 99, 97, 112, 101>>,
     <<116, 97, 98>>,
     <<115, 112, 97, 99, 101>>,
     <<98, 97, 99, 107, 115, 112, 97, 99, 101>>,
     <<100, 101, 108, 101, 116, 101>>,
     <<105, 110, 115, 101, 114, 116>>,
     <<117, 112>>,
     <<100, 111, 119, 110>>,
     <<108, 101, 102, 116>>,
     <<114, 105, 103, 104, 116>>,
     <<104, 111, 109, 101>>,
     <<101, 110, 100>>,
     <<112, 97, 103, 101, 117, 112>>,
     <<112, 97, 103, 101, 100, 111, 119, 110>>,
     <<99, 108, 101, 97, 114>>,
     <<108, 105, 110, 101, 102, 101, 101, 100>>,
     <<102, 49>>,
     <<102, 50>>,
     <<102, 51>>,
     <<102, 52>>,
     <<102, 53>>,
     <<102, 54>>,
     <<102, 55>>,
     <<102, 56>>,
     <<102, 57>>,
     <<102, 49, 48>>,
     <<102, 49, 49>>,
     <<102, 49, 50>> >>

\* ctrl alt shift meta
MODIFIERS == << <<99, 116, 114, 108>>, <<97, 108, 116>>, <<115, 104, 105, 102, 116>>, <<109, 101, 116, 97>> >>

PUNCTUATION ==
  << <<45>>, <<61>>, <<91>>, <<93>>, <<92>>, <<59>>, <<39>>, <<44>>, <<46>>, <<47>>, <<96>>, <<33>>, <<64>>, <<35>>, <<36>>, <<37>>, <<94>>, <<38>>, <<42>>, <<40>>, <<41>>, <<95>>, <<43>>, <<123>>, <<125>>, <<124>>, <<58>>, <<34>>, <<60>>, <<62>>, <<63>>, <<126>> >>

VALID_KEYS ==
  Range(LETTERS) \cup Range(DIGITS) \cup Range(SPECIAL_KEYS)
    \cup Range(MODIFIERS) \cup Range(PUNCTUATION)

toLowerCase(s) == [i \in 1..Len(s) |-> IF s[i] \in 65..90 THEN s[i] + 32 ELSE s[i]]
toUpperCase(s) == [i \in 1..Len(s) |-> IF s[i] \in 97..122 THEN s[i] - 32 ELSE s[i]]

isValidKey(key) == toLowerCase(key) \in VALID_KEYS

CSI_U_KEYCODES ==
  (<<101, 110, 116, 101, 114>> :> 13)
  @@ (<<114, 101, 116, 117, 114, 110>> :> 13)
  @@ (<<116, 97, 98>> :> 9)
  @@ (<<98, 97, 99, 107, 115, 112, 97, 99, 101>> :> 127)
  @@ (<<101, 115, 99, 97, 112, 101>> :> 27)
  @@ (<<101, 115, 99>> :> 27)

KEY_CODES ==
  (<<101, 110, 116, 101, 114>> :> <<13>>)
  @@ (<<114, 101, 116, 117, 114, 110>> :> <<13>>)
  @@ (<<101, 115, 99>> :> <<27>>)
  @@ (<<101, 115, 99, 97, 112, 101>> :> <<27>>)
  @@ (<<116, 97, 98>> :> <<9>>)
  @@ (<<115, 112, 97, 99, 101>> :> <<32>>)
  @@ (<<98, 97, 99, 107, 115, 112, 97, 99, 101>> :> <<127>>)
  @@ (<<100, 101, 108, 101, 116, 101>> :> <<27, 91, 51, 126>>)
  @@ (<<105, 110, 115, 101, 114, 116>> :> <<27, 91, 50, 126>>)
  @@ (<<117, 112>> :> <<27, 91, 65>>)
  @@ (<<100, 111, 119, 110>> :> <<27, 91, 66>>)
  @@ (<<108, 101, 102, 116>> :> <<27, 91, 68>>)
  @@ (<<114, 105, 103, 104, 116>> :> <<27, 91, 67>>)
  @@ (<<104, 111, 109, 101>> :> <<27, 91, 72>>)
  @@ (<<101, 110, 100>> :> <<27, 91, 70>>)
  @@ (<<112, 97, 103, 101, 117, 112>> :> <<27, 91, 53, 126>>)
  @@ (<<112, 97, 103, 101, 100, 111, 119, 110>> :> <<27, 91, 54, 126>>)
  @@ (<<99, 108, 101, 97, 114>> :> <<27, 91, 69>>)
  @@ (<<108, 105, 110, 101, 102, 101, 101, 100>> :> <<10>>)
  @@ (<<102, 49>> :> <<27, 79, 80>>)
  @@ (<<102, 50>> :> <<27, 79, 81>>)
  @@ (<<102, 51>> :> <<27, 79, 82>>)
  @@ (<<102, 52>> :> <<27, 79, 83>>)
  @@ (<<102, 53>> :> <<27, 91, 49, 53, 126>>)
  @@ (<<102, 54>> :> <<27, 91, 49, 55, 126>>)
  @@ (<<102, 55>> :> <<27, 91, 49, 56, 126>>)
  @@ (<<102, 56>> :> <<27, 91, 49, 57, 126>>)
  @@ (<<102, 57>> :> <<27, 91, 50, 48, 126>>)
  @@ (<<102, 49, 48>> :> <<27, 91, 50, 49, 126>>)
  @@ (<<102, 49, 49>> :> <<27, 91, 50, 51, 126>>)
  @@ (<<102, 49, 50>> :> <<27, 91, 50, 52, 126>>)

\* a: '\x01' ... z: '\x1a'
CTRL_CODES ==
  (<<97>> :> <<1>>)
  @@ (<<98>> :> <<2>>)
  @@ (<<99>> :> <<3>>)
  @@ (<<100>> :> <<4>>)
  @@ (<<101>> :> <<5>>)
  @@ (<<102>> :> <<6>>)
  @@ (<<103>> :> <<7>>)
  @@ (<<104>> :> <<8>>)
  @@ (<<105>> :> <<9>>)
  @@ (<<106>> :> <<10>>)
  @@ (<<107>> :> <<11>>)
  @@ (<<108>> :> <<12>>)
  @@ (<<109>> :> <<13>>)
  @@ (<<110>> :> <<14>>)
  @@ (<<111>> :> <<15>>)
  @@ (<<112>> :> <<16>>)
  @@ (<<113>> :> <<17>>)
  @@ (<<114>> :> <<18>>)
  @@ (<<115>> :> <<19>>)
  @@ (<<116>> :> <<20>>)
  @@ (<<117>> :> <<21>>)
  @@ (<<118>> :> <<22>>)
  @@ (<<119>> :> <<23>>)
  @@ (<<120>> :> <<24>>)
  @@ (<<121>> :> <<25>>)
  @@ (<<122>> :> <<26>>)

K_ctrl == <<99, 116, 114, 108>>
K_alt == <<97, 108, 116>>
K_shift == <<115, 104, 105, 102, 116>>
K_meta == <<109, 101, 116, 97>>
K_a == <<97>>
K_foo == <<102, 111, 111>>
K_bar == <<98, 97, 114>>

ESC == 27

\* Mutant of Dec: only the last digit is kept.
DecLastDigit(n) == <<48 + (n % 10)>>

\* `${n}`: the decimal digits of a number.
RECURSIVE Dec(_)
Dec(n) == IF n < 10 THEN <<48 + n>> ELSE Dec(n \div 10) \o <<48 + (n % 10)>>

RECURSIVE Concat(_)
Concat(ss) == IF ss = <<>> THEN <<>> ELSE Head(ss) \o Concat(Tail(ss))

\* Mutant of IsMainKey: meta is not among the modifiers filtered out.
IsMainKeyOrMeta(k) == k # K_ctrl /\ k # K_alt /\ k # K_shift

IsMainKey(k) == k # K_ctrl /\ k # K_alt /\ k # K_shift /\ k # K_meta

\* The chords made of modifiers only, each subset in the order of MODIFIERS.
ModifierLists == {SelectSeq(MODIFIERS, LAMBDA m : m \in S) : S \in SUBSET Range(MODIFIERS)}

\* Mutant of keyCode: shift is applied to a single character before ctrl is
\* looked at.
keyCodeShiftFirst(key, hasCtrl, hasAlt, hasShift) ==
  IF hasShift /\ Len(key) = 1
  THEN (IF hasAlt THEN <<ESC>> ELSE <<>>) \o toUpperCase(key)
  ELSE IF hasCtrl /\ Len(key) = 1
  THEN IF toLowerCase(key) \in DOMAIN CTRL_CODES
       THEN CTRL_CODES[toLowerCase(key)]
       ELSE key
  ELSE IF (hasCtrl \/ hasAlt \/ hasShift) /\ key \in DOMAIN CSI_U_KEYCODES
  THEN <<ESC, 91>> \o Dec(CSI_U_KEYCODES[key]) \o <<59>>
         \o Dec(1 + (IF hasShift THEN 1 ELSE 0) + (IF hasAlt THEN 2 ELSE 0)
                  + (IF hasCtrl THEN 4 ELSE 0))
         \o <<117>>
  ELSE IF key \in DOMAIN KEY_CODES
  THEN (IF hasAlt THEN <<ESC>> ELSE <<>>) \o KEY_CODES[key]
  ELSE key

\* The body of the loop of getKeyCode: the code of one main key.
keyCode(key, hasCtrl, hasAlt, hasShift) ==
  IF hasCtrl /\ Len(key) = 1
  THEN IF toLowerCase(key) \in DOMAIN CTRL_CODES
       THEN CTRL_CODES[toLowerCase(key)]
       ELSE key
  ELSE IF (hasCtrl \/ hasAlt \/ hasShift) /\ key \in DOMAIN CSI_U_KEYCODES
  THEN <<ESC, 91>> \o Dec(CSI_U_KEYCODES[key]) \o <<59>>
         \o Dec(1 + (IF hasShift THEN 1 ELSE 0) + (IF hasAlt THEN 2 ELSE 0)
                  + (IF hasCtrl THEN 4 ELSE 0))
         \o <<117>>
  ELSE IF key \in DOMAIN KEY_CODES
  THEN (IF hasAlt THEN <<ESC>> ELSE <<>>) \o KEY_CODES[key]
  ELSE IF Len(key) = 1
  THEN (IF hasAlt THEN <<ESC>> ELSE <<>>)
         \o (IF hasShift THEN toUpperCase(key) ELSE key)
  ELSE key

getKeyCode(keys) ==
  LET hasCtrl == K_ctrl \in Range(keys)
      hasAlt == K_alt \in Range(keys)
      hasShift == K_shift \in Range(keys)
      mainKeys == SelectSeq(keys, IsMainKey)
  IN  IF mainKeys = <<>>
      THEN <<>>
      ELSE Concat([i \in 1..Len(mainKeys) |->
                     keyCode(mainKeys[i], hasCtrl, hasAlt, hasShift)])


\* Session names the relay's callers pass; "" is an absent -s option.
SessionOpts == {"", "s1", "ghost"}

\* ------------------------------------------------------------------ state
VARIABLES
  closed,           \* Session.closed
  hasReceivedData,  \* Session.hasReceivedData
  idleTimer,        \* Session.idleTimer: Undefined or the handle of the last debounce
  debounces,        \* pending debounce timers: handle -> milliseconds left
  idleResolvers,    \* Session.idleResolvers: waiter ids, in push order
  dataResolvers,    \* Session.dataResolvers: waiter ids, in push order
  waiters,          \* the promises made by waitIdle / waitForData and their timers
  settled,          \* the promises the latest step settled
  cols, rows,       \* Session.cols, Session.rows
  termSize,         \* the emulator's <<cols, rows>>
  ptySize,          \* the PTY's <<cols, rows>>
  termFed,          \* chunks fed to the emulator, in feed order
  ptyWrites,        \* calls of pty.write, in call order
  ptyKills,         \* calls of pty.kill
  termDestroys,     \* calls of term.destroy
  childExited,      \* the child process behind the PTY has exited
  factory,          \* spawn()'s closure: wrapper, dataBuffer, dataCallback, the chunks read and delivered, an exception thrown by the callback
  dropped,          \* a chunk was delivered to the data handler after close
  sinceNotify,      \* milliseconds since the last handled chunk, while a debounce is pending
  fires,            \* quiescence fires since the debounce was last restarted
  burst,            \* chunks handled since the debounce was last idle, on a running session
  sessions,         \* the relay's registry: names of registered sessions
  liveSessions,     \* per name, the Sessions a launch constructed that no close command closed
  ctx,              \* the relay's CommandResult of the latest command; names are the lines `sessions` prints
  task              \* the locals of the multi-step operation in flight (click, text, type, captureFrames)

idleVars == <<hasReceivedData, idleTimer, debounces, idleResolvers, dataResolvers,
              waiters, settled, sinceNotify, fires, burst>>
geomVars == <<cols, rows, termSize, ptySize>>
ioVars == <<termFed, ptyWrites, dropped>>
lifeVars == <<closed, ptyKills, termDestroys, childExited, factory>>
relayVars == <<sessions, liveSessions, ctx>>
vars == <<idleVars, geomVars, ioVars, lifeVars, relayVars, task>>

NoCtx == [cmd |-> "", args |-> <<>>, exitCode |-> 0, stdout |-> "",
          stderr |-> [kind |-> "none"], waiter |-> 0, names |-> {}]

\* A promise slot nobody holds: never used, or settled and no longer referenced.
Free == [kind |-> "", op |-> "", arg |-> 0, delay |-> 0, timer |-> NoTimer,
         state |-> "free", debArmed |-> FALSE, debAtArm |-> NoTimer,
         notified |-> FALSE, closedMid |-> FALSE, armedClosed |-> FALSE]

\* No multi-step operation has been called.  elapsed is Date.now() - startTime,
\* sleep the time left on the operation's own setTimeout, waiter the promise
\* it awaits.
NoTask == [kind |-> "none", pc |-> "idle", arg |-> <<>>, first |-> FALSE, timeout |-> 0,
           elapsed |-> 0, waiter |-> 0, sleep |-> NoTimer, i |-> 0, out |-> <<>>,
           err |-> "none", seen |-> <<>>, count |-> 0]

\* The Session's fields after construction.
InitSession ==
  /\ closed = FALSE
  /\ hasReceivedData = FALSE
  /\ idleTimer = Undefined
  /\ debounces = <<>>
  /\ idleResolvers = <<>>
  /\ dataResolvers = <<>>
  /\ waiters = [w \in 1..MaxWaiters |-> Free]
  /\ settled = {}
  /\ cols = DEFAULT_COLS
  /\ rows = DEFAULT_ROWS
  /\ termSize = <<DEFAULT_COLS, DEFAULT_ROWS>>
  /\ ptySize = <<DEFAULT_COLS, DEFAULT_ROWS>>
  /\ termFed = <<>>
  /\ ptyWrites = <<>>
  /\ ptyKills = 0
  /\ termDestroys = 0
  /\ childExited = FALSE
  /\ dropped = FALSE
  /\ sinceNotify = 0
  /\ fires = 0
  /\ burst = 0
  /\ sessions = {"s1"}
  /\ liveSessions = [n \in SessionOpts \ {""} |-> IF n = "s1" THEN 1 ELSE 0]
  /\ ctx = NoCtx
  /\ task = NoTask

\* The three spawn() wrappers of the repository.
Wrappers == {"node-pty", "bun-terminal", "bun-pty"}

\* spawn() has returned and onData has not been called: nothing read yet.
Spawned(wrapper) ==
  [wrapper |-> wrapper, dataBuffer |-> <<>>, dataCallback |-> FALSE,
   read |-> <<>>, delivered |-> <<>>, thrown |-> FALSE]

\* The state after construction: the constructor has registered the data
\* handler in the same turn in which it called spawn().
Init ==
  /\ InitSession
  /\ factory = [Spawned("node-pty") EXCEPT !.dataCallback = TRUE]

\* ---------------------------------------------------------------- helpers
DebouncePending == DOMAIN debounces # {}

\* Milliseconds left on the debounce the session's handle names, or NoTimer.
DebounceLeft ==
  IF idleTimer \in DOMAIN debounces THEN debounces[idleTimer] ELSE NoTimer

\* clearTimeout(handle): a cleared timer never fires.
clearTimeout(timers, handle) == [h \in DOMAIN timers \ {handle} |-> timers[h]]

\* Milliseconds since a pending waiter was armed.
Elapsed(w) == w.delay - w.timer

\* Mutant of Settle: a settled promise is settled again.
SettleAgain(w, outcome) == [w EXCEPT !.state = outcome]

\* resolve() / reject() of a promise: settling a settled promise is a no-op.
Settle(w, outcome) ==
  IF w.state = "pending" THEN [w EXCEPT !.state = outcome] ELSE w

\* The closure pushed onto idleResolvers / dataResolvers:
\* () => { clearTimeout(t); resolve() }
CallResolver(w) == [Settle(w, "resolved") EXCEPT !.timer = NoTimer]

\* resolvers.forEach((fn) => fn())
CallResolvers(ws, ids) ==
  [i \in DOMAIN ws |-> IF i \in Range(ids) THEN CallResolver(ws[i]) ELSE ws[i]]

\* What a settling step did: one record per promise whose state it changed.
Settlements(ws, post, how) ==
  {[id |-> i, kind |-> ws[i].kind, op |-> ws[i].op, was |-> ws[i].state,
    state |-> post[i].state, via |-> how, arg |-> ws[i].arg,
    elapsed |-> Elapsed(ws[i]), debArmed |-> ws[i].debArmed,
    debAtArm |-> ws[i].debAtArm, notified |-> ws[i].notified,
    closedMid |-> ws[i].closedMid, armedClosed |-> ws[i].armedClosed,
    closed |-> closed, hadData |-> hasReceivedData]
     : i \in {j \in DOMAIN ws : post[j].state # ws[j].state}}

\* A settled promise that no resolver list references is garbage; one that a
\* list still references stays, as the closure in the list still names it.
Reap(ws, iR, dR) ==
  [i \in DOMAIN ws |->
     IF ws[i].state = "pending" THEN ws[i]
     ELSE IF i \in Range(iR) \cup Range(dR)
     THEN [Free EXCEPT !.kind = ws[i].kind, !.state = ws[i].state]
     ELSE Free]

\* The relay command's continuation after `await session.press(...)`.
CtxAfter(done) ==
  IF \E r \in done : r.id = ctx.waiter /\ r.state = "resolved"
  THEN [ctx EXCEPT !.stdout = "OK", !.waiter = 0]
  ELSE ctx

FreeSlots == {i \in DOMAIN waiters : waiters[i].state = "free"}
NewId == CHOOSE i \in FreeSlots : \A j \in FreeSlots : i <= j

NewWaiter(kind, op, arg, delay) ==
  [kind |-> kind, op |-> op, arg |-> arg, delay |-> delay, timer |-> delay,
   state |-> "pending",
   debArmed |-> (kind = "idle" /\ DebounceLeft # NoTimer),
   debAtArm |-> IF kind = "idle" THEN DebounceLeft ELSE NoTimer,
   notified |-> FALSE, closedMid |-> FALSE, armedClosed |-> closed]

\* History kept with a pending waiter: a chunk was handled, or close was
\* called, since it was armed.  Either cancels the debounce that was pending
\* at arming, so debAtArm no longer names a timer.
Notified(ws) ==
  [i \in DOMAIN ws |->
     IF ws[i].state = "pending"
     THEN [ws[i] EXCEPT !.notified = TRUE, !.debAtArm = NoTimer]
     ELSE ws[i]]

ClosedMid(ws) ==
  [i \in DOMAIN ws |->
     IF ws[i].state = "pending"
     THEN [ws[i] EXCEPT !.closedMid = TRUE, !.debAtArm = NoTimer]
     ELSE ws[i]]

\* The handle setTimeout returns: one that names no pending timer.
NewHandle(timers) == CHOOSE h \in 1..(Cardinality(DOMAIN timers) + 1) : h \notin DOMAIN timers

\* ------------------------------------------------------- the data handler
\* Mutant of HandleDataFrom: the chunk is put in front of what was fed.
HandleDataFromFront(chunk, kept) ==
  /\ Len(termFed) < (IF task.kind = "launch" THEN MaxStream ELSE MaxChunks)
  /\ termFed' = <<chunk>> \o termFed
  /\ hasReceivedData' = TRUE
  /\ LET woken == IF hasReceivedData THEN <<>> ELSE dataResolvers
         post == CallResolvers(waiters, woken)
         done == Settlements(waiters, post, "data")
     IN  /\ dataResolvers' = IF hasReceivedData THEN dataResolvers ELSE <<>>
         /\ waiters' = Notified(Reap(post, idleResolvers, dataResolvers'))
         /\ settled' = done
         /\ ctx' = CtxAfter(done)
  /\ idleTimer' = NewHandle(kept)
  /\ debounces' = kept @@ (NewHandle(kept) :> IDLE_DEBOUNCE)
  /\ sinceNotify' = 0
  /\ fires' = 0
  /\ burst' = IF DebouncePending THEN burst + 1 ELSE 1
  /\ UNCHANGED <<idleResolvers, geomVars, ptyWrites, dropped, lifeVars, task, sessions, liveSessions>>

\* The handler's body past the closed check; kept is the debounce table
\* after clearTimeout(this.idleTimer).
HandleDataFrom(chunk, kept) ==
  /\ Len(termFed) < (IF task.kind = "launch" THEN MaxStream ELSE MaxChunks)
  /\ termFed' = Append(termFed, chunk)
  /\ hasReceivedData' = TRUE
  /\ LET woken == IF hasReceivedData THEN <<>> ELSE dataResolvers
         post == CallResolvers(waiters, woken)
         done == Settlements(waiters, post, "data")
     IN  /\ dataResolvers' = IF hasReceivedData THEN dataResolvers ELSE <<>>
         /\ waiters' = Notified(Reap(post, idleResolvers, dataResolvers'))
         /\ settled' = done
         /\ ctx' = CtxAfter(done)
  /\ idleTimer' = NewHandle(kept)
  /\ debounces' = kept @@ (NewHandle(kept) :> IDLE_DEBOUNCE)
  /\ sinceNotify' = 0
  /\ fires' = 0
  /\ burst' = IF DebouncePending THEN burst + 1 ELSE 1
  /\ UNCHANGED <<idleResolvers, geomVars, ptyWrites, dropped, lifeVars, task, sessions, liveSessions>>

\* Mutant of HandleData: the pending debounce is not cancelled.
HandleDataNoClear(chunk) == HandleDataFrom(chunk, debounces)

HandleData(chunk) == HandleDataFrom(chunk, clearTimeout(debounces, idleTimer))

\* Mutant of OnData: the handler does not look at the closed flag.
OnDataNoClosedCheck(chunk) == HandleData(chunk)

\* this.pty.onData((data) => { ... })
OnData(chunk) ==
  IF closed
  THEN /\ dropped' = TRUE
       /\ settled' = {}
       /\ UNCHANGED <<hasReceivedData, idleTimer, debounces, idleResolvers,
                      dataResolvers, waiters, sinceNotify, fires, burst,
                      geomVars, termFed, ptyWrites, lifeVars, task, relayVars>>
  ELSE HandleData(chunk)

\* The handler called with a chunk on which this.term.feed(data) throws:
\* the statements after the feed are not executed and the exception leaves
\* the handler, into the wrapper that called it.
OnDataFeedThrows(chunk) ==
  /\ ~closed
  /\ ~factory.thrown
  /\ factory' = [factory EXCEPT !.thrown = TRUE]
  /\ settled' = {}
  /\ UNCHANGED <<closed, ptyKills, termDestroys, childExited, hasReceivedData, idleTimer,
                 debounces, idleResolvers, dataResolvers, waiters, sinceNotify, fires,
                 burst, geomVars, ioVars, relayVars, task>>

\* The debounce callback: setTimeout(() => { ... }, 60)
DebounceFire(h) ==
  /\ h \in DOMAIN debounces
  /\ debounces[h] = 0
  /\ debounces' = clearTimeout(debounces, h)
  /\ IF closed
     THEN /\ settled' = {}
          /\ UNCHANGED <<idleResolvers, waiters, fires, ctx>>
     ELSE LET post == CallResolvers(waiters, idleResolvers)
              done == Settlements(waiters, post, "debounce")
          IN  /\ idleResolvers' = <<>>
              /\ waiters' = Reap(post, <<>>, dataResolvers)
              /\ settled' = done
              /\ fires' = fires + 1
              /\ ctx' = CtxAfter(done)
  /\ sinceNotify' = IF DOMAIN debounces' = {} THEN 0 ELSE sinceNotify
  /\ UNCHANGED <<hasReceivedData, idleTimer, dataResolvers, burst,
                 geomVars, ioVars, lifeVars, task, sessions, liveSessions>>

\* A waiter's own timer: setTimeout(resolve, ...) in waitIdle,
\* setTimeout(() => reject(...), timeout) in waitForData.
WaiterTimeout(w) ==
  /\ w \in DOMAIN waiters
  /\ waiters[w].timer = 0
  /\ LET post == [waiters EXCEPT ![w] =
                    [Settle(@, IF @.kind = "idle" THEN "resolved" ELSE "rejected")
                       EXCEPT !.timer = NoTimer]]
         done == Settlements(waiters, post, "timeout")
     IN  /\ waiters' = Reap(post, idleResolvers, dataResolvers)
         /\ settled' = done
         /\ ctx' = CtxAfter(done)
  /\ UNCHANGED <<hasReceivedData, idleTimer, debounces, idleResolvers, dataResolvers,
                 sinceNotify, fires, burst, geomVars, ioVars, lifeVars, task, sessions, liveSessions>>

\* Time passes: by at most Quantum, and never past a pending timer.
PendingTimers ==
  {debounces[h] : h \in DOMAIN debounces}
    \cup {waiters[w].timer : w \in {i \in DOMAIN waiters : waiters[i].timer # NoTimer}}
    \cup ({task.sleep} \ {NoTimer})

\* The operation in flight has not returned or thrown.
TaskRunning == task.pc \notin {"idle", "done", "failed"}

NextDue == CHOOSE t \in PendingTimers : \A u \in PendingTimers : t <= u

Advance(d) ==
  /\ d >= 1
  /\ \A t \in PendingTimers : d <= t
  /\ debounces' = [h \in DOMAIN debounces |-> debounces[h] - d]
  /\ waiters' = [i \in DOMAIN waiters |->
                   IF waiters[i].timer # NoTimer
                   THEN [waiters[i] EXCEPT !.timer = @ - d]
                   ELSE waiters[i]]
  /\ sinceNotify' = IF DebouncePending THEN sinceNotify + d ELSE sinceNotify
  /\ task' = IF TaskRunning
              THEN [task EXCEPT !.elapsed = @ + d,
                                !.sleep = IF @ = NoTimer THEN NoTimer ELSE @ - d]
              ELSE task
  /\ settled' = {}
  /\ UNCHANGED <<hasReceivedData, idleTimer, idleResolvers, dataResolvers,
                 fires, burst, geomVars, ioVars, lifeVars, relayVars>>

\* Time passes while a timer is pending: by Quantum, or less if a timer is due sooner.
Tick ==
  /\ PendingTimers # {}
  /\ Advance(Min(Quantum, NextDue))

\* Time passes until the next timer is due.
Skip ==
  /\ PendingTimers # {}
  /\ Advance(NextDue)

\* --------------------------------------------------------- the operations
\* Mutant of ArmIdle: the resolver is never pushed onto idleResolvers.
ArmIdleNoPush(op, timeout) ==
  /\ FreeSlots # {}
  /\ waiters' = [waiters EXCEPT ![NewId] =
        NewWaiter("idle", op, timeout,
                  IF idleTimer = Undefined THEN Min(timeout, INITIAL_IDLE_FALLBACK)
                  ELSE timeout)]
  /\ UNCHANGED idleResolvers

\* Mutant of ArmIdle: the resolver is put at the head of idleResolvers.
ArmIdleFront(op, timeout) ==
  /\ FreeSlots # {}
  /\ IF idleTimer = Undefined
     THEN /\ waiters' = [waiters EXCEPT ![NewId] =
                 NewWaiter("idle", op, timeout, Min(timeout, INITIAL_IDLE_FALLBACK))]
          /\ UNCHANGED idleResolvers
     ELSE /\ waiters' = [waiters EXCEPT ![NewId] = NewWaiter("idle", op, timeout, timeout)]
          /\ idleResolvers' = <<NewId>> \o idleResolvers

\* The body of `new Promise(...)` in waitIdle, for the operation op.
ArmIdle(op, timeout) ==
  /\ FreeSlots # {}
  /\ IF idleTimer = Undefined
     THEN /\ waiters' = [waiters EXCEPT ![NewId] =
                 NewWaiter("idle", op, timeout, Min(timeout, INITIAL_IDLE_FALLBACK))]
          /\ UNCHANGED idleResolvers
     ELSE /\ waiters' = [waiters EXCEPT ![NewId] = NewWaiter("idle", op, timeout, timeout)]
          /\ idleResolvers' = Append(idleResolvers, NewId)

\* async waitIdle(options?: { timeout?: number })
WaitIdle(timeout) ==
  /\ ArmIdle("waitIdle", timeout)
  /\ settled' = {}
  /\ UNCHANGED <<hasReceivedData, idleTimer, debounces, dataResolvers,
                 sinceNotify, fires, burst, geomVars, ioVars, lifeVars, task, relayVars>>

\* async waitForData(options?: { timeout?: number })
WaitForData(timeout) ==
  /\ FreeSlots # {}
  /\ IF hasReceivedData
     THEN /\ settled' = Settlements(
                 [w \in {NewId} |-> NewWaiter("data", "waitForData", timeout, 0)],
                 [w \in {NewId} |-> [Free EXCEPT !.state = "resolved"]], "immediate")
          /\ UNCHANGED <<waiters, dataResolvers>>
     ELSE /\ waiters' = [waiters EXCEPT ![NewId] =
                 NewWaiter("data", "waitForData", timeout, timeout)]
          /\ dataResolvers' = Append(dataResolvers, NewId)
          /\ settled' = {}
  /\ UNCHANGED <<hasReceivedData, idleTimer, debounces, idleResolvers, sinceNotify,
                 fires, burst, geomVars, ioVars, lifeVars, task, relayVars>>

PtyWrite(op, data) == Append(ptyWrites, [op |-> op, data |-> data, closed |-> closed])

\* async press(keys): getKeyCode, then write(code) = pty.write + waitIdle().
\* Leaves ctx and sessions to the caller.
press(keys) ==
  LET code == getKeyCode(keys)
  IN  IF code # <<>>
      THEN /\ Len(ptyWrites) < MaxWrites
           /\ ptyWrites' = PtyWrite("press", code)
           /\ ArmIdle("press", DEFAULT_IDLE_TIMEOUT)
           /\ settled' = {}
           /\ UNCHANGED <<hasReceivedData, idleTimer, debounces, dataResolvers,
                          sinceNotify, fires, burst, geomVars, termFed, dropped,
                          lifeVars, task>>
      ELSE /\ settled' = {}
           /\ UNCHANGED <<hasReceivedData, idleTimer, debounces, idleResolvers,
                          dataResolvers, waiters, sinceNotify, fires, burst,
                          geomVars, ioVars, lifeVars, task>>

\* Session.press called through the typed API: every element is a Key.
Press(keys) ==
  /\ \A i \in 1..Len(keys) : keys[i] \in VALID_KEYS
  /\ press(keys)
  /\ UNCHANGED relayVars

\* Mutant of Resize: the PTY is not resized.
ResizeNoPty(c, r) ==
  /\ cols' = c
  /\ rows' = r
  /\ termSize' = <<c, r>>
  /\ settled' = {}
  /\ UNCHANGED <<hasReceivedData, idleTimer, debounces, idleResolvers, dataResolvers,
                 waiters, sinceNotify, fires, burst, ptySize, ioVars, lifeVars, task,
                 relayVars>>

\* resize(options: { cols: number; rows: number })
Resize(c, r) ==
  /\ cols' = c
  /\ rows' = r
  /\ termSize' = <<c, r>>
  /\ ptySize' = <<c, r>>
  /\ settled' = {}
  /\ UNCHANGED <<hasReceivedData, idleTimer, debounces, idleResolvers, dataResolvers,
                 waiters, sinceNotify, fires, burst, ioVars, lifeVars, task, relayVars>>

\* ------------------------------------------------------------ mouse events
\* An optional argument that was left out.
Omitted == 0 - 1

\* v ?? d
Coalesce(v, d) == IF v = Omitted THEN d ELSE v

\* s.repeat(n)
RECURSIVE Repeat(_, _)
Repeat(str, n) == IF n <= 0 THEN <<>> ELSE str \o Repeat(str, n - 1)

\* `\x1b[<${button};${xPos};${yPos}${final}`
SgrMouse(button, xPos, yPos, final) ==
  <<ESC, 91, 60>> \o Dec(button) \o <<59>> \o Dec(xPos) \o <<59>> \o Dec(yPos) \o <<final>>

\* Mutant of ClickAt: the cell is sent as it is, 0-based.
ClickAtZeroBased(x, y) ==
  /\ FreeSlots # {}
  /\ Len(ptyWrites) < MaxWrites
  /\ ptyWrites' = ptyWrites
       \o <<[op |-> "clickAt", data |-> SgrMouse(0, x, y, 77), closed |-> closed],
            [op |-> "clickAt", data |-> SgrMouse(0, x, y, 109), closed |-> closed]>>
  /\ ArmIdle("clickAt", DEFAULT_IDLE_TIMEOUT)
  /\ settled' = {}
  /\ UNCHANGED <<hasReceivedData, idleTimer, debounces, dataResolvers, sinceNotify,
                 fires, burst, geomVars, termFed, dropped, lifeVars, relayVars, task>>

\* async clickAt(x, y): pty.write(press), then write(release) = pty.write + waitIdle().
ClickAt(x, y) ==
  /\ FreeSlots # {}
  /\ Len(ptyWrites) < MaxWrites
  /\ ptyWrites' = ptyWrites
       \o <<[op |-> "clickAt", data |-> SgrMouse(0, x + 1, y + 1, 77), closed |-> closed],
            [op |-> "clickAt", data |-> SgrMouse(0, x + 1, y + 1, 109), closed |-> closed]>>
  /\ ArmIdle("clickAt", DEFAULT_IDLE_TIMEOUT)
  /\ settled' = {}
  /\ UNCHANGED <<hasReceivedData, idleTimer, debounces, dataResolvers, sinceNotify,
                 fires, burst, geomVars, termFed, dropped, lifeVars, relayVars, task>>

\* Mutant of ScrollEvent: an omitted position is the centre of the launch geometry.
ScrollEventLaunchGeometry(button, x, y) ==
  SgrMouse(button, Coalesce(x, DEFAULT_COLS \div 2) + 1,
           Coalesce(y, DEFAULT_ROWS \div 2) + 1, 77)

\* scrollEvent of scrollUp / scrollDown, at (x ?? floor(cols / 2), y ?? floor(rows / 2)).
ScrollEvent(button, x, y) ==
  SgrMouse(button, Coalesce(x, cols \div 2) + 1, Coalesce(y, rows \div 2) + 1, 77)

\* The body shared by scrollUp and scrollDown: one pty.write, then waitIdle().
Scroll(name, button, lines, x, y) ==
  /\ FreeSlots # {}
  /\ Len(ptyWrites) < MaxWrites
  /\ ptyWrites' = PtyWrite(name, Repeat(ScrollEvent(button, x, y), lines))
  /\ ArmIdle(name, DEFAULT_IDLE_TIMEOUT)
  /\ settled' = {}
  /\ UNCHANGED <<hasReceivedData, idleTimer, debounces, dataResolvers, sinceNotify,
                 fires, burst, geomVars, termFed, dropped, lifeVars, relayVars, task>>

\* async scrollUp(lines = 1, x?, y?)
ScrollUp(lines, x, y) == Scroll("scrollUp", 64, lines, x, y)

\* async scrollDown(lines = 1, x?, y?)
ScrollDown(lines, x, y) == Scroll("scrollDown", 65, lines, x, y)

\* ------------------------------------------------------------- the screen
\* Mutant of getJson: the grid as it was one repaint earlier.
getJsonStale == IF Len(termFed) < 2 THEN <<>> ELSE termFed[Len(termFed) - 1]

\* this.term.getJson().lines, each line the concatenation of its spans' text.
\* A chunk of the screen specifications is a full repaint: the emulator shows
\* the lines of the last chunk fed, and no line before the first.
getJson == IF termFed = <<>> THEN <<>> ELSE termFed[Len(termFed)]

\* /\s/ on the characters used here: space, tab, line feed.
IsSpace(c) == c \in {32, 9, 10}

\* l.replace(/\s+$/, '')
RECURSIVE trimEndLine(_)
trimEndLine(l) ==
  IF l # <<>> /\ IsSpace(l[Len(l)]) THEN trimEndLine(SubSeq(l, 1, Len(l) - 1)) ELSE l

\* lines.join('\n')
RECURSIVE join(_)
join(lines) ==
  IF lines = <<>> THEN <<>>
  ELSE IF Len(lines) = 1 THEN lines[1]
  ELSE lines[1] \o <<10>> \o join(Tail(lines))

\* cleanupText(lines, trimEnd = false), as text() calls it by default.
cleanupText(lines) == <<10>> \o join([i \in 1..Len(lines) |-> trimEndLine(lines[i])])

\* getCurrentText() of text(), without the `only` filter.
getCurrentText == cleanupText(getJson)

\* Mutant of lineText: a span that does not match becomes one space.
RECURSIVE lineTextOneSpace(_, _)
lineTextOneSpace(spans, only) ==
  IF spans = <<>> THEN <<>>
  ELSE (IF only = "any" \/ (only = "bold") = spans[1].bold
        THEN spans[1].text
        ELSE <<32>>) \o lineTextOneSpace(Tail(spans), only)

\* The inner loop of buildTextFromJson over the spans of one line, with the
\* filter only.bold: "any" is only === undefined, "bold" is { bold: true },
\* "plain" is { bold: false }.
RECURSIVE lineText(_, _)
lineText(spans, only) ==
  IF spans = <<>> THEN <<>>
  ELSE (IF only = "any" \/ (only = "bold") = spans[1].bold
        THEN spans[1].text
        ELSE Repeat(<<32>>, spans[1].width)) \o lineText(Tail(spans), only)

\* buildTextFromJson(data, only, trimEnd = false) for a grid of one line.
buildTextFromJson(spans, only) == cleanupText(<<lineText(spans, only)>>)

\* ------------------------------------------------- type and captureFrames
\* Mutant of CodePoints: one UTF-16 unit at a time.
CodeUnits(text) == [i \in 1..Len(text) |-> <<text[i]>>]

\* for (const char of text): the UTF-16 units of text grouped by code point, a
\* high surrogate taking the low surrogate that follows it.
RECURSIVE CodePoints(_)
CodePoints(text) ==
  IF text = <<>> THEN <<>>
  ELSE IF /\ Len(text) >= 2
          /\ text[1] \in 55296..56319
          /\ text[2] \in 56320..57343
       THEN <<SubSeq(text, 1, 2)>> \o CodePoints(SubSeq(text, 3, Len(text)))
       ELSE <<SubSeq(text, 1, 1)>> \o CodePoints(Tail(text))

\* The loop of type() from its head, i code points written: the next write and
\* its 1 ms sleep, or waitIdle() after the last.
TypeLoop(text, i) ==
  LET chars == CodePoints(text)
  IN  /\ IF i < Len(chars)
         THEN /\ ptyWrites' = PtyWrite("type", chars[i + 1])
              /\ task' = [NoTask EXCEPT !.kind = "type", !.pc = "sleeping", !.arg = text,
                                        !.i = i + 1, !.sleep = 1]
              /\ UNCHANGED <<waiters, idleResolvers>>
         ELSE /\ ArmIdle("type", DEFAULT_IDLE_TIMEOUT)
              /\ task' = [NoTask EXCEPT !.kind = "type", !.pc = "waiting", !.arg = text,
                                        !.i = i, !.waiter = NewId]
              /\ UNCHANGED ptyWrites
      /\ settled' = {}
      /\ UNCHANGED <<hasReceivedData, idleTimer, debounces, dataResolvers, sinceNotify,
                     fires, burst, geomVars, termFed, dropped, lifeVars, relayVars>>

\* async type(text)
Type(text) ==
  /\ task.pc = "idle"
  /\ TypeLoop(text, 0)

\* The 1 ms timer of type() fires.
TypeWake ==
  /\ task.kind = "type"
  /\ task.pc = "sleeping"
  /\ task.sleep = 0
  /\ TypeLoop(task.arg, task.i)

\* Mutant of CaptureLoop: the interval sleep follows every frame.
CaptureLoopSleepAlways(keys, frameCount, intervalMs, i, frames) ==
  /\ IF i < frameCount
     THEN /\ task' = [NoTask EXCEPT !.kind = "captureFrames", !.pc = "sleeping",
                                    !.arg = keys, !.count = frameCount,
                                    !.timeout = intervalMs, !.i = i + 1,
                                    !.out = Append(frames, getCurrentText),
                                    !.sleep = intervalMs]
          /\ UNCHANGED <<waiters, idleResolvers>>
     ELSE /\ ArmIdle("captureFrames", DEFAULT_IDLE_TIMEOUT)
          /\ task' = [NoTask EXCEPT !.kind = "captureFrames", !.pc = "waiting",
                                    !.arg = keys, !.count = frameCount,
                                    !.timeout = intervalMs, !.i = i,
                                    !.out = frames, !.waiter = NewId]
  /\ settled' = {}
  /\ UNCHANGED <<hasReceivedData, idleTimer, debounces, dataResolvers, sinceNotify,
                 fires, burst, geomVars, termFed, dropped, lifeVars, relayVars>>

\* The loop of captureFrames() from its head, i frames captured: the next frame
\* and the interval sleep, or, with the last frame, waitIdle().
CaptureLoop(keys, frameCount, intervalMs, i, frames) ==
  LET out == IF i < frameCount THEN Append(frames, getCurrentText) ELSE frames
  IN  /\ IF i < frameCount - 1
         THEN /\ task' = [NoTask EXCEPT !.kind = "captureFrames", !.pc = "sleeping",
                                        !.arg = keys, !.count = frameCount,
                                        !.timeout = intervalMs, !.i = i + 1,
                                        !.out = out, !.sleep = intervalMs]
              /\ UNCHANGED <<waiters, idleResolvers>>
         ELSE /\ ArmIdle("captureFrames", DEFAULT_IDLE_TIMEOUT)
              /\ task' = [NoTask EXCEPT !.kind = "captureFrames", !.pc = "waiting",
                                        !.arg = keys, !.count = frameCount,
                                        !.timeout = intervalMs, !.i = Len(out),
                                        !.out = out, !.waiter = NewId]
      /\ settled' = {}
      /\ UNCHANGED <<hasReceivedData, idleTimer, debounces, dataResolvers, sinceNotify,
                     fires, burst, geomVars, termFed, dropped, lifeVars, relayVars>>

\* Mutant of CaptureFrames: the key is written and the first frame is taken
\* only after an interval.
CaptureFramesDeferred(keys, frameCount, intervalMs) ==
  /\ task.pc = "idle"
  /\ Len(ptyWrites) < MaxWrites
  /\ ptyWrites' = IF getKeyCode(keys) # <<>>
                  THEN PtyWrite("sendKey", getKeyCode(keys))
                  ELSE ptyWrites
  /\ task' = [NoTask EXCEPT !.kind = "captureFrames", !.pc = "sleeping", !.arg = keys,
                            !.count = Coalesce(frameCount, 5),
                            !.timeout = Coalesce(intervalMs, 10), !.i = 0,
                            !.sleep = Coalesce(intervalMs, 10)]
  /\ settled' = {}
  /\ UNCHANGED <<hasReceivedData, idleTimer, debounces, idleResolvers, dataResolvers,
                 waiters, sinceNotify, fires, burst, geomVars, termFed, dropped,
                 lifeVars, relayVars>>

\* async captureFrames(keys, { frameCount, intervalMs }): sendKey(keys), then
\* the loop.
CaptureFrames(keys, frameCount, intervalMs) ==
  /\ task.pc = "idle"
  /\ Len(ptyWrites) < MaxWrites
  /\ ptyWrites' = IF getKeyCode(keys) # <<>>
                  THEN PtyWrite("sendKey", getKeyCode(keys))
                  ELSE ptyWrites
  /\ CaptureLoop(keys, Coalesce(frameCount, 5), Coalesce(intervalMs, 10), 0, <<>>)

\* The interval timer of captureFrames() fires.
CaptureWake ==
  /\ task.kind = "captureFrames"
  /\ task.pc = "sleeping"
  /\ task.sleep = 0
  /\ UNCHANGED ptyWrites
  /\ CaptureLoop(task.arg, task.count, task.timeout, task.i, task.out)

\* async press(keys), with its argument and the code it computed kept: a code
\* that is not empty is written and waitIdle() awaited, an empty one returns.
PressKeys(keys) ==
  /\ task.pc = "idle"
  /\ IF getKeyCode(keys) # <<>>
     THEN /\ Len(ptyWrites) < MaxWrites
          /\ ptyWrites' = PtyWrite("press", getKeyCode(keys))
          /\ ArmIdle("press", DEFAULT_IDLE_TIMEOUT)
          /\ task' = [NoTask EXCEPT !.kind = "press", !.pc = "waiting", !.arg = keys,
                                    !.out = getKeyCode(keys), !.waiter = NewId]
     ELSE /\ task' = [NoTask EXCEPT !.kind = "press", !.pc = "done", !.arg = keys]
          /\ UNCHANGED <<ptyWrites, waiters, idleResolvers>>
  /\ settled' = {}
  /\ UNCHANGED <<hasReceivedData, idleTimer, debounces, dataResolvers, sinceNotify,
                 fires, burst, geomVars, termFed, dropped, lifeVars, relayVars>>

\* The promise the operation awaits has settled and its continuation can run.
TaskReady == task.pc \in {"waiting", "polling"} /\ waiters[task.waiter].state # "pending"

\* The continuation after the last `await this.waitIdle()` of type,
\* captureFrames and click: the operation returns.
TaskReturn ==
  /\ TaskReady
  /\ task.pc = "waiting"
  /\ task' = [task EXCEPT !.pc = "done", !.waiter = 0, !.elapsed = 0]
  /\ settled' = {}
  /\ UNCHANGED <<hasReceivedData, idleTimer, debounces, idleResolvers, dataResolvers,
                 waiters, sinceNotify, fires, burst, geomVars, ioVars, lifeVars, relayVars>>

\* ---------------------------------------------------------- click and text
\* searchRegex.exec(lineText) in a loop, for a string pattern (escaped, so
\* matched literally): the 0-based start of every match from position `from`
\* on, the search resuming after the end of the previous match.
RECURSIVE MatchStarts(_, _, _)
MatchStarts(line, pat, from) ==
  IF from + Len(pat) - 1 > Len(line) THEN <<>>
  ELSE IF SubSeq(line, from, from + Len(pat) - 1) = pat
       THEN <<from - 1>> \o MatchStarts(line, pat, from + Len(pat))
       ELSE MatchStarts(line, pat, from + 1)

\* Mutant of Matches: the rows are collected from the bottom up.
RECURSIVE MatchesBottomUp(_, _, _)
MatchesBottomUp(lines, pat, y) ==
  IF y > Len(lines) THEN <<>>
  ELSE MatchesBottomUp(lines, pat, y + 1)
         \o [k \in 1..Len(MatchStarts(lines[y], pat, 1)) |->
               [x |-> MatchStarts(lines[y], pat, 1)[k], y |-> y - 1]]

\* The matches array of click(), from row y (1-based here) on.
RECURSIVE Matches(_, _, _)
Matches(lines, pat, y) ==
  IF y > Len(lines) THEN <<>>
  ELSE [k \in 1..Len(MatchStarts(lines[y], pat, 1)) |->
          [x |-> MatchStarts(lines[y], pat, 1)[k], y |-> y - 1]]
         \o Matches(lines, pat, y + 1)

\* while ((match = searchRegex.exec(lineText)) !== null) never ends: for an
\* empty match exec leaves lastIndex where it was, so the next call returns
\* the same match; the escaped pattern matches the empty string exactly when
\* it is empty, and then on the first line examined.
ExecHangs(lines, pat) == pat = <<>> /\ lines # <<>>

\* Mutant of TooMany: matches are counted by the rows they are on.
TooManyRows(ms, first) == Cardinality({ms[k].y : k \in 1..Len(ms)}) > 1 /\ ~first

\* matches.length > 1 && !first
TooMany(ms, first) == Len(ms) > 1 /\ ~first

\* Mutant of KeepPolling: a single poll.
KeepPollingOnce(elapsed, timeout) == elapsed = 0 /\ timeout > 0

\* while (Date.now() - startTime < timeout)
KeepPolling(elapsed, timeout) == elapsed < timeout

\* The loop of click() from its head, after n examinations of the screen: the
\* next waitIdle({ timeout: 15 }), or the not-found error.
ClickLoop(pattern, first, timeout, elapsed, n, seen) ==
  /\ IF KeepPolling(elapsed, timeout)
     THEN /\ ArmIdle("click", 15)
          /\ task' = [NoTask EXCEPT !.kind = "click", !.pc = "polling", !.arg = pattern,
                                    !.first = first, !.timeout = timeout,
                                    !.elapsed = elapsed, !.i = n, !.seen = seen,
                                    !.waiter = NewId]
     ELSE /\ task' = [NoTask EXCEPT !.kind = "click", !.pc = "failed", !.arg = pattern,
                                    !.first = first, !.timeout = timeout,
                                    !.elapsed = elapsed, !.i = n, !.seen = seen,
                                    !.err = "notFound"]
          /\ UNCHANGED <<waiters, idleResolvers>>
  /\ settled' = {}
  /\ UNCHANGED <<hasReceivedData, idleTimer, debounces, dataResolvers, sinceNotify,
                 fires, burst, geomVars, ioVars, lifeVars, relayVars>>

\* async click(pattern, { timeout, first })
Click(pattern, first, timeout) ==
  /\ task.pc = "idle"
  /\ ClickLoop(pattern, first, Coalesce(timeout, 5000), 0, 0, <<>>)

\* The continuation of click() after `await this.waitIdle({ timeout: 15 })`:
\* the screen is examined; no match polls again, too many matches throw,
\* otherwise clickAt(target.x, target.y) is called and awaited.
ClickPoll ==
  /\ TaskReady
  /\ task.kind = "click"
  /\ task.pc = "polling"
  /\ IF ExecHangs(getJson, task.arg)
     THEN /\ task' = [task EXCEPT !.pc = "matching", !.waiter = 0]
          /\ settled' = {}
          /\ UNCHANGED <<hasReceivedData, idleTimer, debounces, idleResolvers, dataResolvers,
                         waiters, sinceNotify, fires, burst, geomVars, ioVars, lifeVars,
                         relayVars>>
     ELSE
     LET ms == Matches(getJson, task.arg, 1)
     IN  IF ms = <<>>
         THEN ClickLoop(task.arg, task.first, task.timeout, task.elapsed, task.i + 1, getJson)
         ELSE /\ IF TooMany(ms, task.first)
                 THEN /\ task' = [task EXCEPT !.pc = "failed", !.err = "multiple",
                                              !.count = Len(ms), !.i = @ + 1,
                                              !.seen = getJson, !.waiter = 0]
                      /\ UNCHANGED <<ptyWrites, waiters, idleResolvers>>
                 ELSE /\ ptyWrites' = ptyWrites
                           \o <<[op |-> "clickAt", closed |-> closed,
                                 data |-> SgrMouse(0, ms[1].x + 1, ms[1].y + 1, 77)],
                                [op |-> "clickAt", closed |-> closed,
                                 data |-> SgrMouse(0, ms[1].x + 1, ms[1].y + 1, 109)]>>
                      /\ ArmIdle("clickAt", DEFAULT_IDLE_TIMEOUT)
                      /\ task' = [task EXCEPT !.pc = "waiting", !.count = Len(ms),
                                              !.i = @ + 1, !.seen = getJson,
                                              !.waiter = NewId]
              /\ settled' = {}
              /\ UNCHANGED <<hasReceivedData, idleTimer, debounces, dataResolvers,
                             sinceNotify, fires, burst, geomVars, termFed, dropped,
                             lifeVars, relayVars>>

\* Mutant of WaitFor: the default predicate does not trim.
WaitForUntrimmed(waitFor, text) ==
  IF waitFor = <<>> THEN Len(text) > 0
  ELSE \E k \in 1..Len(text) :
         k + Len(waitFor) - 1 <= Len(text) /\ SubSeq(text, k, k + Len(waitFor) - 1) = waitFor

\* options.waitFor: <<>> is the default, text.trim().length > 0; a pattern is
\* waitForText's regex.test(text) for a string pattern.
WaitFor(waitFor, text) ==
  IF waitFor = <<>> THEN \E k \in 1..Len(text) : ~IsSpace(text[k])
  ELSE \E k \in 1..Len(text) :
         k + Len(waitFor) - 1 <= Len(text) /\ SubSeq(text, k, k + Len(waitFor) - 1) = waitFor

\* The loop of text() from its head: the next waitIdle({ timeout: 15 }), or
\* the final evaluation on a fresh projection.
TextLoop(waitFor, timeout, elapsed, n) ==
  /\ IF KeepPolling(elapsed, timeout)
     THEN /\ ArmIdle("text", 15)
          /\ task' = [NoTask EXCEPT !.kind = "text", !.pc = "polling", !.arg = waitFor,
                                    !.timeout = timeout, !.elapsed = elapsed, !.i = n,
                                    !.waiter = NewId]
     ELSE /\ task' = [NoTask EXCEPT !.kind = "text", !.arg = waitFor,
                                    !.timeout = timeout, !.elapsed = elapsed, !.i = n,
                                    !.out = getCurrentText,
                                    !.pc = IF WaitFor(waitFor, getCurrentText)
                                           THEN "done" ELSE "failed",
                                    !.err = IF WaitFor(waitFor, getCurrentText)
                                            THEN "none" ELSE "timeout"]
          /\ UNCHANGED <<waiters, idleResolvers>>
  /\ settled' = {}
  /\ UNCHANGED <<hasReceivedData, idleTimer, debounces, dataResolvers, sinceNotify,
                 fires, burst, geomVars, ioVars, lifeVars, relayVars>>

\* async text({ timeout, waitFor }), not immediate; waitForText(pattern,
\* { timeout }) is text with the pattern's predicate.
Text(waitFor, timeout) ==
  /\ task.pc = "idle"
  /\ TextLoop(waitFor, Coalesce(timeout, IF waitFor = <<>> THEN 1000 ELSE 5000), 0, 0)

\* The continuation of text() after `await this.waitIdle({ timeout: 15 })`.
TextPoll ==
  /\ TaskReady
  /\ task.kind = "text"
  /\ task.pc = "polling"
  /\ IF WaitFor(task.arg, getCurrentText)
     THEN /\ task' = [task EXCEPT !.pc = "done", !.out = getCurrentText, !.i = @ + 1,
                                  !.waiter = 0]
          /\ settled' = {}
          /\ UNCHANGED <<hasReceivedData, idleTimer, debounces, idleResolvers,
                         dataResolvers, waiters, sinceNotify, fires, burst, geomVars,
                         ioVars, lifeVars, relayVars>>
     ELSE TextLoop(task.arg, task.timeout, task.elapsed, task.i + 1)

\* ---------------------------------------------------------- launchTerminal
\* async launchTerminal(options): new Session(options) is the initial state;
\* unless options.waitForData is false, waitForData({ timeout:
\* options.waitForDataTimeout ?? 5000 }) is called and awaited.  The parameter
\* waitForData is the value of options.waitForData !== false.
LaunchTerminal(waitForData, waitForDataTimeout) ==
  /\ task.pc = "idle"
  /\ ~hasReceivedData
  /\ IF waitForData
     THEN /\ waiters' = [waiters EXCEPT ![NewId] =
                 NewWaiter("data", "launch", Coalesce(waitForDataTimeout, 5000),
                           Coalesce(waitForDataTimeout, 5000))]
          /\ dataResolvers' = Append(dataResolvers, NewId)
          /\ task' = [NoTask EXCEPT !.kind = "launch", !.pc = "awaitData",
                                    !.first = TRUE, !.waiter = NewId,
                                    !.timeout = Coalesce(waitForDataTimeout, 5000)]
     ELSE /\ task' = [NoTask EXCEPT !.kind = "launch", !.pc = "done"]
          /\ UNCHANGED <<waiters, dataResolvers>>
  /\ settled' = {}
  /\ UNCHANGED <<hasReceivedData, idleTimer, debounces, idleResolvers, sinceNotify,
                 fires, burst, geomVars, ioVars, lifeVars, relayVars>>

\* Mutant of LaunchData: the session is returned as soon as data has arrived.
LaunchDataNoIdle ==
  /\ task.kind = "launch"
  /\ task.pc = "awaitData"
  /\ \E r \in settled :
       /\ r.id = task.waiter
       /\ task' = [task EXCEPT !.pc = IF r.state = "resolved" THEN "done" ELSE "failed",
                               !.err = IF r.state = "resolved" THEN "none" ELSE "dataTimeout",
                               !.waiter = 0, !.elapsed = 0]
  /\ settled' = {}
  /\ UNCHANGED <<hasReceivedData, idleTimer, debounces, idleResolvers, dataResolvers,
                 waiters, sinceNotify, fires, burst, geomVars, ioVars, lifeVars, relayVars>>

\* The continuation of launchTerminal after `await session.waitForData(...)`:
\* a rejection is thrown on, otherwise waitIdle() is called and awaited.
LaunchData ==
  /\ task.kind = "launch"
  /\ task.pc = "awaitData"
  /\ \E r \in settled :
       /\ r.id = task.waiter
       /\ IF r.state = "resolved"
          THEN /\ ArmIdle("launch", DEFAULT_IDLE_TIMEOUT)
               /\ task' = [task EXCEPT !.pc = "waiting", !.waiter = NewId, !.elapsed = 0]
          ELSE /\ task' = [task EXCEPT !.pc = "failed", !.err = "dataTimeout",
                                       !.waiter = 0, !.elapsed = 0]
               /\ UNCHANGED <<waiters, idleResolvers>>
  /\ settled' = {}
  /\ UNCHANGED <<hasReceivedData, idleTimer, debounces, dataResolvers, sinceNotify,
                 fires, burst, geomVars, ioVars, lifeVars, relayVars>>

\* close(): void.  Leaves ctx and sessions to the caller.
close ==
  /\ ptyKills < MaxCloses
  /\ closed' = TRUE
  /\ debounces' = clearTimeout(debounces, idleTimer)
  /\ ptyKills' = ptyKills + 1
  /\ termDestroys' = termDestroys + 1
  /\ waiters' = ClosedMid(waiters)
  /\ settled' = {}
  /\ sinceNotify' = IF DOMAIN debounces' = {} THEN 0 ELSE sinceNotify
  /\ burst' = 0
  /\ UNCHANGED <<hasReceivedData, idleTimer, idleResolvers, dataResolvers,
                 fires, geomVars, ioVars, task, childExited, factory>>

Close ==
  /\ close
  /\ UNCHANGED relayVars

\* The child process exits.  spawn() registers pty.onData and nothing else,
\* the IPty it returns has no exit callback, and the Session constructor
\* subscribes to onData only: no field of the Session changes.
ChildExit ==
  /\ ~childExited
  /\ childExited' = TRUE
  /\ settled' = {}
  /\ UNCHANGED <<closed, ptyKills, termDestroys, factory, hasReceivedData, idleTimer,
                 debounces, idleResolvers, dataResolvers, waiters, sinceNotify, fires,
                 burst, geomVars, ioVars, relayVars, task>>

\* ------------------------------------------------------ the relay commands
\* Mutant of SessionError: the name is not looked up in the registry.
SessionErrorNoLookup(opt) ==
  IF opt = "" THEN [kind |-> "SessionRequired"] ELSE [kind |-> "none"]

\* requireSession and getSession: the error the command ends with, if any.
SessionError(opt) ==
  IF opt = "" THEN [kind |-> "SessionRequired"]
  ELSE IF opt \notin sessions THEN [kind |-> "NotFound", session |-> opt]
  ELSE [kind |-> "none"]

Fail(cmd, args, err) ==
  [cmd |-> cmd, args |-> args, exitCode |-> 1, stdout |-> "", stderr |-> err,
   waiter |-> 0, names |-> {}]

\* The action of the `press <key> [...keys]` command, with checked the keys
\* that go through isValidKey.
PressCommandChecking(opt, allKeys, checked) ==
  LET invalidKeys == SelectSeq(checked, LAMBDA k : ~isValidKey(k))
  IN  IF SessionError(opt).kind # "none"
      THEN /\ ctx' = Fail("press", allKeys, SessionError(opt))
           /\ settled' = {}
           /\ UNCHANGED <<hasReceivedData, idleTimer, debounces, idleResolvers,
                          dataResolvers, waiters, sinceNotify, fires, burst,
                          geomVars, ioVars, lifeVars, task, sessions, liveSessions>>
      ELSE IF Len(invalidKeys) > 0
      THEN /\ ctx' = Fail("press", allKeys,
                          [kind |-> "InvalidKeys", invalid |-> invalidKeys,
                           valid |-> VALID_KEYS])
           /\ settled' = {}
           /\ UNCHANGED <<hasReceivedData, idleTimer, debounces, idleResolvers,
                          dataResolvers, waiters, sinceNotify, fires, burst,
                          geomVars, ioVars, lifeVars, task, sessions, liveSessions>>
      ELSE /\ press(allKeys)
           /\ ctx' = [cmd |-> "press", args |-> allKeys, exitCode |-> 0,
                      stdout |-> IF getKeyCode(allKeys) = <<>> THEN "OK" ELSE "",
                      stderr |-> [kind |-> "none"],
                      waiter |-> IF getKeyCode(allKeys) = <<>> THEN 0 ELSE NewId,
                      names |-> {}]
           /\ UNCHANGED <<sessions, liveSessions>>

\* Mutant of PressCommand: only the first key is validated.
PressCommandFirstKey(opt, allKeys) ==
  PressCommandChecking(opt, allKeys, SubSeq(allKeys, 1, 1))

\* The action of the `press <key> [...keys]` command.
PressCommand(opt, allKeys) == PressCommandChecking(opt, allKeys, allKeys)

\* Mutant of CloseCommand: the name stays in the registry.
CloseCommandKeepName(opt) ==
  IF SessionError(opt).kind # "none"
  THEN /\ ctx' = Fail("close", <<>>, SessionError(opt))
       /\ settled' = {}
       /\ UNCHANGED <<hasReceivedData, idleTimer, debounces, idleResolvers,
                      dataResolvers, waiters, sinceNotify, fires, burst,
                      geomVars, ioVars, lifeVars, task, sessions, liveSessions>>
  ELSE /\ close
       /\ sessions' = sessions
       /\ liveSessions' = [liveSessions EXCEPT ![opt] = @ - 1]
       /\ ctx' = [cmd |-> "close", args |-> <<>>, exitCode |-> 0, stdout |-> "closed",
                  stderr |-> [kind |-> "none"], waiter |-> 0, names |-> {}]

\* The action of the `close` command.
CloseCommand(opt) ==
  IF SessionError(opt).kind # "none"
  THEN /\ ctx' = Fail("close", <<>>, SessionError(opt))
       /\ settled' = {}
       /\ UNCHANGED <<hasReceivedData, idleTimer, debounces, idleResolvers,
                      dataResolvers, waiters, sinceNotify, fires, burst,
                      geomVars, ioVars, lifeVars, task, sessions, liveSessions>>
  ELSE /\ close
       /\ sessions' = sessions \ {opt}
       /\ liveSessions' = [liveSessions EXCEPT ![opt] = @ - 1]
       /\ ctx' = [cmd |-> "close", args |-> <<>>, exitCode |-> 0, stdout |-> "closed",
                  stderr |-> [kind |-> "none"], waiter |-> 0, names |-> {}]

\* new Session(options) for the relay's launch: the fields after the
\* constructor, with the launch command's default geometry.  The model follows
\* the Session object registered under its name; waiters and dataResolvers
\* are left to the caller.
NewSession ==
  /\ closed' = FALSE
  /\ hasReceivedData' = FALSE
  /\ idleTimer' = Undefined
  /\ debounces' = <<>>
  /\ idleResolvers' = <<>>
  /\ cols' = DEFAULT_COLS
  /\ rows' = DEFAULT_ROWS
  /\ termSize' = <<DEFAULT_COLS, DEFAULT_ROWS>>
  /\ ptySize' = <<DEFAULT_COLS, DEFAULT_ROWS>>
  /\ termFed' = <<>>
  /\ ptyWrites' = <<>>
  /\ ptyKills' = 0
  /\ termDestroys' = 0
  /\ childExited' = FALSE
  /\ factory' = [Spawned(factory.wrapper) EXCEPT !.dataCallback = TRUE]
  /\ dropped' = FALSE
  /\ sinceNotify' = 0
  /\ fires' = 0
  /\ burst' = 0

\* The action of the `launch <command>` command up to its await, with exists
\* the outcome of sessions.has(options.session).  A launch that awaits
\* waitForData keeps its CommandResult in task until LaunchCommandReply.
LaunchCommandFrom(name, wait, timeout, exists) ==
  IF exists
  THEN /\ ctx' = Fail("launch", <<name>>, [kind |-> "AlreadyExists", session |-> name])
       /\ settled' = {}
       /\ UNCHANGED <<hasReceivedData, idleTimer, debounces, idleResolvers,
                      dataResolvers, waiters, sinceNotify, fires, burst,
                      geomVars, ioVars, lifeVars, task, sessions, liveSessions>>
  ELSE /\ task.pc # "awaitData"
       /\ FreeSlots # {}
       /\ NewSession
       /\ sessions' = sessions \cup {name}
       /\ liveSessions' = [liveSessions EXCEPT ![name] = @ + 1]
       /\ settled' = {}
       /\ IF wait
          THEN /\ waiters' = [waiters EXCEPT ![NewId] =
                      [NewWaiter("data", "launch", timeout, timeout)
                         EXCEPT !.armedClosed = FALSE, !.debArmed = FALSE]]
               /\ dataResolvers' = <<NewId>>
               /\ task' = [NoTask EXCEPT !.kind = "launchCommand", !.pc = "awaitData",
                                         !.waiter = NewId, !.timeout = timeout]
               /\ UNCHANGED ctx
          ELSE /\ dataResolvers' = <<>>
               /\ ctx' = [cmd |-> "launch", args |-> <<name>>, exitCode |-> 0,
                          stdout |-> "started", stderr |-> [kind |-> "none"],
                          waiter |-> 0, names |-> {}]
               /\ UNCHANGED <<waiters, task>>

\* Mutant of LaunchCommand: the name is not looked up before the Session is made.
LaunchCommandNoLookup(name, wait, timeout) == LaunchCommandFrom(name, wait, timeout, FALSE)

\* The action of the `launch <command>` command up to its await.
LaunchCommand(name, wait, timeout) ==
  LaunchCommandFrom(name, wait, timeout, name \in sessions)

\* The launch command after `await session.waitForData(...)`: "started" (pc
\* done), or the catch branch's "Failed to launch" with exit code 1 (pc failed).
LaunchCommandReply ==
  /\ task.kind = "launchCommand" /\ task.pc = "awaitData"
  /\ \E r \in settled :
       /\ r.id = task.waiter
       /\ task' = IF r.state = "resolved"
                  THEN [task EXCEPT !.pc = "done", !.waiter = 0]
                  ELSE [task EXCEPT !.pc = "failed", !.err = "dataTimeout", !.waiter = 0]
  /\ settled' = {}
  /\ UNCHANGED <<hasReceivedData, idleTimer, debounces, idleResolvers, dataResolvers,
                 waiters, sinceNotify, fires, burst, geomVars, ioVars, lifeVars,
                 relayVars>>

\* The action of the `resize <cols> <rows>` command.
ResizeCommand(opt, c, r) ==
  IF SessionError(opt).kind # "none"
  THEN /\ ctx' = Fail("resize", <<>>, SessionError(opt))
       /\ settled' = {}
       /\ UNCHANGED <<hasReceivedData, idleTimer, debounces, idleResolvers,
                      dataResolvers, waiters, sinceNotify, fires, burst,
                      geomVars, ioVars, lifeVars, task, sessions, liveSessions>>
  ELSE /\ cols' = c
       /\ rows' = r
       /\ termSize' = <<c, r>>
       /\ ptySize' = <<c, r>>
       /\ ctx' = [cmd |-> "resize", args |-> <<>>, exitCode |-> 0, stdout |-> "OK",
                  stderr |-> [kind |-> "none"], waiter |-> 0, names |-> {}]
       /\ settled' = {}
       /\ UNCHANGED <<hasReceivedData, idleTimer, debounces, idleResolvers,
                      dataResolvers, waiters, sinceNotify, fires, burst,
                      ioVars, lifeVars, task, sessions, liveSessions>>

\* The action of the `wait-idle` command up to its await.
WaitIdleCommand(opt, timeout) ==
  IF SessionError(opt).kind # "none"
  THEN /\ ctx' = Fail("wait-idle", <<>>, SessionError(opt))
       /\ settled' = {}
       /\ UNCHANGED <<hasReceivedData, idleTimer, debounces, idleResolvers,
                      dataResolvers, waiters, sinceNotify, fires, burst,
                      geomVars, ioVars, lifeVars, task, sessions, liveSessions>>
  ELSE /\ ArmIdle("waitIdle", timeout)
       /\ ctx' = [cmd |-> "wait-idle", args |-> <<>>, exitCode |-> 0, stdout |-> "",
                  stderr |-> [kind |-> "none"], waiter |-> NewId, names |-> {}]
       /\ settled' = {}
       /\ UNCHANGED <<hasReceivedData, idleTimer, debounces, dataResolvers,
                      sinceNotify, fires, burst, geomVars, ioVars, lifeVars, task,
                      sessions, liveSessions>>

\* The action of the `sessions` command: the registry's keys, one per line.
SessionsCommand ==
  /\ ctx' = [cmd |-> "sessions", args |-> <<>>, exitCode |-> 0,
             stdout |-> IF sessions = {} THEN "No active sessions" ELSE "names",
             stderr |-> [kind |-> "none"], waiter |-> 0, names |-> sessions]
  /\ settled' = {}
  /\ UNCHANGED <<hasReceivedData, idleTimer, debounces, idleResolvers,
                 dataResolvers, waiters, sinceNotify, fires, burst,
                 geomVars, ioVars, lifeVars, task, sessions, liveSessions>>

\* ------------------------------------------------------ the PTY factory
\* The library hands a chunk it read from the child to the wrapper.  The
\* node-pty and Bun.spawn wrappers pass it to dataCallback or push it on
\* dataBuffer.  The bun-pty wrapper has no listener of its own: before
\* onData is called the chunk goes to the library's emitter, which either
\* has no listener for it (kept = FALSE) or holds it for the first one.
SpawnRead(chunk, kept) ==
  /\ Len(factory.read) < MaxChunks + 2
  /\ factory' =
       IF factory.dataCallback
       THEN [factory EXCEPT !.read = Append(@, chunk), !.delivered = Append(@, chunk)]
       ELSE IF factory.wrapper # "bun-pty" \/ kept
       THEN [factory EXCEPT !.read = Append(@, chunk), !.dataBuffer = Append(@, chunk)]
       ELSE [factory EXCEPT !.read = Append(@, chunk)]
  /\ settled' = {}
  /\ UNCHANGED <<closed, ptyKills, termDestroys, childExited, hasReceivedData, idleTimer,
                 debounces, idleResolvers, dataResolvers, waiters, sinceNotify, fires,
                 burst, geomVars, ioVars, relayVars, task>>

\* IPty.onData(callback): dataCallback = callback, then the buffered chunks
\* go to the callback in the order of dataBuffer.
SpawnOnData ==
  /\ factory' = [factory EXCEPT !.dataCallback = TRUE,
                                !.delivered = @ \o factory.dataBuffer,
                                !.dataBuffer = <<>>]
  /\ settled' = {}
  /\ UNCHANGED <<closed, ptyKills, termDestroys, childExited, hasReceivedData, idleTimer,
                 debounces, idleResolvers, dataResolvers, waiters, sinceNotify, fires,
                 burst, geomVars, ioVars, relayVars, task>>

\* --------------------------------------------------------- specifications
\* The idle tracker: data arrival, the debounce, the waiters, close.
NextIdle ==
  \/ \E chunk \in Chunks : OnData(chunk)
  \/ \E h \in DOMAIN debounces : DebounceFire(h)
  \/ \E w \in DOMAIN waiters : WaiterTimeout(w)
  \/ Tick
  \/ \E t \in Timeouts : WaitIdle(t)
  \/ \E t \in Timeouts : WaitForData(t)
  \/ Close

SpecIdle == Init /\ [][NextIdle]_vars

\* The caller awaits the promise of one operation before it starts the next.
Awaited == \A i \in DOMAIN waiters : waiters[i].state # "pending"

\* The session's operations around resize: one caller that awaits press,
\* waitIdle and waitForData, while resize and close come at any time.
NextGeom ==
  \/ \E sz \in Sizes : Resize(sz[1], sz[2])
  \/ \E keys \in {<<K_a>>, <<K_ctrl>>} : Awaited /\ Press(keys)
  \/ \E chunk \in Chunks \cup {"y"} : OnData(chunk)
  \/ \E h \in DOMAIN debounces : DebounceFire(h)
  \/ \E w \in DOMAIN waiters : WaiterTimeout(w)
  \/ Skip
  \/ \E t \in {DEFAULT_IDLE_TIMEOUT} : Awaited /\ WaitIdle(t)
  \/ \E t \in {DEFAULT_IDLE_TIMEOUT} : Awaited /\ WaitForData(t)
  \/ Close
  \/ ChildExit

SpecGeom == Init /\ [][NextGeom]_vars

\* The relay: commands addressed to a session by name, sent by one client
\* that waits for a command's reply before it sends the next.
RelayKeyLists == UNION {[1..n -> {K_a, K_foo, K_bar}] : n \in 1..MaxKeys}

Replied == ctx.waiter = 0

\* The promise a launch awaits has settled: its continuation runs before any
\* other callback.
LaunchReady == task.pc = "awaitData" /\ waiters[task.waiter].state # "pending"

NextRelay ==
  \/ \E opt \in SessionOpts, keys \in RelayKeyLists : Replied /\ PressCommand(opt, keys)
  \/ \E opt \in SessionOpts : Replied /\ CloseCommand(opt)
  \/ \E w \in DOMAIN waiters : WaiterTimeout(w)
  \/ Skip

SpecRelay == Init /\ [][NextRelay]_vars

\* The relay's registry: one client that waits for each reply, next to a
\* launch of another client that is still awaiting the child's first output.
NextRegistry ==
  \/ \E opt \in SessionOpts : Replied /\ ~LaunchReady /\ PressCommand(opt, <<K_a>>)
  \/ \E opt \in SessionOpts : Replied /\ ~LaunchReady /\ CloseCommand(opt)
  \/ \E wait \in BOOLEAN : Replied /\ ~LaunchReady /\ LaunchCommand("s1", wait, 100)
  \/ LaunchCommandReply
  \/ \E opt \in SessionOpts : Replied /\ ~LaunchReady /\ ResizeCommand(opt, 40, 10)
  \/ \E opt \in SessionOpts : Replied /\ ~LaunchReady /\ WaitIdleCommand(opt, 100)
  \/ Replied /\ ~LaunchReady /\ SessionsCommand
  \/ \E chunk \in Chunks : ~LaunchReady /\ OnData(chunk)
  \/ \E h \in DOMAIN debounces : ~LaunchReady /\ DebounceFire(h)
  \/ \E w \in DOMAIN waiters : ~LaunchReady /\ WaiterTimeout(w)
  \/ ~LaunchReady /\ Skip

SpecRegistry == Init /\ [][NextRegistry]_vars

\* The PTY factory by itself: the library reads at any time, the caller
\* registers its callback at any time.
InitFactory ==
  /\ InitSession
  /\ factory \in {Spawned(w) : w \in Wrappers}

NextFactory ==
  \/ \E chunk \in Chunks \cup {"y"}, kept \in BOOLEAN : SpawnRead(chunk, kept)
  \/ SpawnOnData

SpecFactory == InitFactory /\ [][NextFactory]_vars

\* The mouse operations, with resize, data arrival and a waitIdle in flight.
ClickPositions == {<<0, 0>>, <<9, 3>>}
ScrollArgs == {<<1, Omitted, 0>>, <<2, 0, Omitted>>}
MouseSizes == {<<41, 11>>}

\* The caller awaits each mouse operation; a waitIdle of another caller may be in flight.
MouseAwaited ==
  /\ Len(ptyWrites) < MaxWrites - 1
  /\ \A i \in DOMAIN waiters : waiters[i].state = "pending" => waiters[i].op = "waitIdle"
NoIdleInFlight == \A i \in DOMAIN waiters : waiters[i].op # "waitIdle"

NextMouse ==
  \/ MouseAwaited /\ \E p \in ClickPositions : ClickAt(p[1], p[2])
  \/ MouseAwaited /\ \E a \in ScrollArgs : ScrollUp(a[1], a[2], a[3])
  \/ MouseAwaited /\ \E a \in ScrollArgs : ScrollDown(a[1], a[2], a[3])
  \/ \E sz \in MouseSizes : Resize(sz[1], sz[2])
  \/ NoIdleInFlight /\ \E t \in {DEFAULT_IDLE_TIMEOUT} : WaitIdle(t)
  \/ \E chunk \in Chunks : OnData(chunk)
  \/ \E h \in DOMAIN debounces : DebounceFire(h)
  \/ \E w \in DOMAIN waiters : WaiterTimeout(w)
  \/ Skip

SpecMouse == Init /\ [][NextMouse]_vars

\* type and captureFrames, one call in a run, with output arriving.  While a
\* continuation is ready (a microtask), no timer or I/O callback runs.
Line_x == <<120, 32>>
Line_ab == <<32, 32, 97, 98>>
Line_abab == <<97, 98, 32, 97, 98>>
Texts == {<<>>, <<104, 105>>, <<55357, 56832, 33>>}
FrameCounts == {Omitted, 1, 2}
PacedScreens == {<<Line_x>>, <<Line_x, Line_ab>>}

NextPaced ==
  \/ \E text \in Texts : Type(text)
  \/ TypeWake
  \/ \E n \in FrameCounts : CaptureFrames(<<K_a>>, n, Omitted)
  \/ CaptureWake
  \/ \E keys \in ModifierLists \cup {<<K_ctrl, K_a>>, <<K_meta, K_a>>} : PressKeys(keys)
  \/ TaskReturn
  \/ ~TaskReady /\ task.pc \in {"sleeping", "waiting"} /\ Close
  \/ ~TaskReady /\ \E chunk \in PacedScreens : OnData(chunk)
  \/ ~TaskReady /\ \E h \in DOMAIN debounces : DebounceFire(h)
  \/ ~TaskReady /\ \E w \in DOMAIN waiters : WaiterTimeout(w)
  \/ ~TaskReady /\ Skip

SpecPaced == Init /\ [][NextPaced]_vars

\* captureFrames alone, one call in a run, also with no frame asked for;
\* output arrives before and during the call.
NextCapture ==
  \/ \E n \in {0, 1, 2} : CaptureFrames(<<K_a>>, n, Omitted)
  \/ CaptureWake
  \/ TaskReturn
  \/ ~TaskReady /\ \E chunk \in PacedScreens : OnData(chunk)
  \/ ~TaskReady /\ \E h \in DOMAIN debounces : DebounceFire(h)
  \/ ~TaskReady /\ \E w \in DOMAIN waiters : WaiterTimeout(w)
  \/ ~TaskReady /\ Skip

SpecCapture == Init /\ [][NextCapture]_vars

\* Two callers on one session: a type call, and presses made while it runs.
NextOverlap ==
  \/ \E text \in Texts : Type(text)
  \/ TypeWake
  \/ TaskReturn
  \/ ~TaskReady /\ task.kind = "type" /\ \E keys \in {<<K_a>>, <<K_ctrl, K_a>>} : Press(keys)
  \/ ~TaskReady /\ \E chunk \in PacedScreens : OnData(chunk)
  \/ ~TaskReady /\ \E h \in DOMAIN debounces : DebounceFire(h)
  \/ ~TaskReady /\ \E w \in DOMAIN waiters : WaiterTimeout(w)
  \/ ~TaskReady /\ Skip

SpecOverlap == Init /\ [][NextOverlap]_vars

\* click and text, one call in a run, with repaints arriving.
Pattern_ab == <<97, 98>>
PollTimeouts == {0, 40}
PollScreens == {<<Line_x>>, <<Line_x, Line_ab>>, <<Line_abab>>, <<Line_ab, Line_abab>>}

NextPoll ==
  \/ \E p \in {Pattern_ab, <<>>}, first \in BOOLEAN, t \in PollTimeouts : Click(p, first, t)
  \/ ClickPoll
  \/ \E w \in {<<>>, Pattern_ab}, t \in PollTimeouts : Text(w, t)
  \/ TextPoll
  \/ TaskReturn
  \/ task.pc # "matching" /\ ~TaskReady /\ \E chunk \in PollScreens : OnData(chunk)
  \/ task.pc # "matching" /\ ~TaskReady /\ \E h \in DOMAIN debounces : DebounceFire(h)
  \/ task.pc # "matching" /\ ~TaskReady /\ \E w \in DOMAIN waiters : WaiterTimeout(w)
  \/ task.pc # "matching" /\ ~TaskReady /\ Skip

SpecPoll == Init /\ [][NextPoll]_vars

\* The same with progress: one call whose timeout allows a single poll, and
\* a step that can be taken is taken, so timers fire and continuations run.
NextPollLive ==
  \/ \E p \in {Pattern_ab, <<>>}, first \in BOOLEAN : Click(p, first, 15)
  \/ ClickPoll
  \/ \E w \in {<<>>, Pattern_ab} : Text(w, 15)
  \/ TextPoll
  \/ TaskReturn
  \/ task.pc # "matching" /\ ~TaskReady /\ \E chunk \in PollScreens : OnData(chunk)
  \/ task.pc # "matching" /\ ~TaskReady /\ \E h \in DOMAIN debounces : DebounceFire(h)
  \/ task.pc # "matching" /\ ~TaskReady /\ \E w \in DOMAIN waiters : WaiterTimeout(w)
  \/ task.pc # "matching" /\ ~TaskReady /\ Skip

SpecPollLive == Init /\ [][NextPollLive]_vars /\ WF_vars(NextPollLive)

\* launchTerminal is the first thing done with a session; output then arrives
\* at any pace.
NextLaunch ==
  \/ \E w \in BOOLEAN, t \in {Omitted, 100} : LaunchTerminal(w, t)
  \/ LaunchData
  \/ task.kind = "launch" /\ TaskReturn
  \/ task.kind = "launch" /\ ~TaskReady /\ ~LaunchReady /\ \E chunk \in Chunks : OnData(chunk)
  \/ task.kind = "launch" /\ ~TaskReady /\ ~LaunchReady
       /\ \E chunk \in Chunks : OnDataFeedThrows(chunk)
  \/ task.kind = "launch" /\ ~TaskReady /\ ~LaunchReady
       /\ \E h \in DOMAIN debounces : DebounceFire(h)
  \/ task.kind = "launch" /\ ~TaskReady /\ ~LaunchReady
       /\ \E w \in DOMAIN waiters : WaiterTimeout(w)
  \/ task.kind = "launch" /\ ~TaskReady /\ ~LaunchReady /\ Skip
  \/ hasReceivedData /\ ~TaskReady /\ ~LaunchReady /\ Tick

SpecLaunch == Init /\ [][NextLaunch]_vars

\* The key codec on its own: getKeyCode applied to chords of one main key
\* and any modifiers, the main key first or last.  "Enter" is a key name as
\* a shell user may spell it; isValidKey accepts it.
ChordKeys == Range(LETTERS) \cup DOMAIN CSI_U_KEYCODES \cup {<<69, 110, 116, 101, 114>>}
Chords ==
  {mods \o <<k>> : mods \in ModifierLists, k \in ChordKeys}
    \cup {<<k>> \o mods : mods \in ModifierLists, k \in ChordKeys}

\* A call of getKeyCode, with its argument and its result kept.
GetKeyCode(keys) ==
  /\ task' = [NoTask EXCEPT !.kind = "getKeyCode", !.pc = "done", !.arg = keys,
                            !.out = getKeyCode(keys)]
  /\ UNCHANGED <<idleVars, geomVars, ioVars, lifeVars, relayVars>>

NextCodec == \E keys \in Chords : GetKeyCode(keys)

SpecCodec == Init /\ [][NextCodec]_vars

\* The screen projection on its own: text({ only, trimEnd: false }) on grids
\* of one line.  A span is a run of cells of one style; the CJK glyph fills
\* two cells with one UTF-16 unit.
Spans ==
  {[text |-> t, width |-> Len(t), bold |-> b] : t \in {<<97>>, <<32>>, <<99, 100>>}, b \in BOOLEAN}
    \cup {[text |-> <<20013>>, width |-> 2, bold |-> b] : b \in BOOLEAN}

BuildTextFromJson(spans, only) ==
  /\ task' = [NoTask EXCEPT !.kind = "buildTextFromJson", !.pc = "done",
                            !.arg = [spans |-> spans, only |-> only],
                            !.out = buildTextFromJson(spans, only)]
  /\ UNCHANGED <<idleVars, geomVars, ioVars, lifeVars, relayVars>>

NextProject ==
  task.pc = "idle" /\ \E n \in 0..MaxSpans : \E spans \in [1..n -> Spans], only \in {"any", "bold", "plain"} :
    BuildTextFromJson(spans, only)

SpecProject == Init /\ [][NextProject]_vars

\* ------------------------------------------------------------- properties
PendingWaiters(kind) ==
  {i \in DOMAIN waiters : waiters[i].state = "pending" /\ waiters[i].kind = kind}

\* C1: after close(), no operation succeeds and nothing is written to the
\* PTY: no promise armed on a closed session is resolved, and no pty.write
\* call is made with the closed flag set.
C1_ClosedOpsFail ==
  /\ \A r \in settled : r.armedClosed => r.state # "resolved"
  /\ \A i \in 1..Len(ptyWrites) : ~ptyWrites[i].closed

\* C2: close() is idempotent: whatever the number of close() calls, the PTY
\* is killed at most once and the emulator is destroyed at most once.
C2_CloseOnce == ptyKills <= 1 /\ termDestroys <= 1

\* C3: a waiter that is pending when close() is called terminates without
\* success: a promise that was pending at a close() call is never settled as
\* resolved.
C3_NoSuccessAfterClose ==
  \A r \in settled : r.closedMid => r.state # "resolved"

\* C4: after close() the data handler is a no-op: in a step taken by a closed
\* session the emulator is not fed, hasReceivedData does not change, no
\* first-data waiter is woken, no debounce is started and no quiescence fire
\* happens; and no debounce is pending on a closed session.
C4_HandlerNoOpAfterClose ==
  /\ [](closed => ~DebouncePending)
  /\ [][closed => /\ termFed' = termFed
                  /\ hasReceivedData' = hasReceivedData
                  /\ idleTimer' = idleTimer
                  /\ debounces' = debounces
                  /\ fires' = fires
                  /\ \A r \in settled' : r.via \notin {"data", "debounce"}]_vars

\* A chunk was delivered after close(), and the debounce of the last chunk
\* handled before close() had not fired when close() was called.
C4_Witness ==
  closed /\ dropped /\ idleTimer # Undefined /\ fires = 0

\* C5: a waitIdle armed while no debounce is scheduled resolves after
\* min(timeout, 20 ms), as long as no chunk arrives and close() is not called.
C5_FallbackWhenNoDebounce ==
  /\ \A i \in PendingWaiters("idle") :
       (~waiters[i].debArmed /\ ~waiters[i].notified /\ ~waiters[i].closedMid
          /\ ~waiters[i].armedClosed)
         => Elapsed(waiters[i]) <= Min(waiters[i].arg, INITIAL_IDLE_FALLBACK)
  /\ \A r \in settled :
       (r.kind = "idle" /\ ~r.debArmed /\ ~r.notified /\ ~r.closedMid
          /\ ~r.armedClosed)
         => r.elapsed = Min(r.arg, INITIAL_IDLE_FALLBACK)

\* C6: on a running session, a waitIdle armed while a chunk's debounce is
\* pending, with no further chunk, resolves when that debounce fires or when
\* its own timeout elapses, whichever is first, and is never pending later
\* than either.  (debAtArm names the debounce only while no chunk has
\* arrived and close() has not been called since arming.)
C6_ResolvesAtDebounceOrTimeout ==
  /\ \A i \in PendingWaiters("idle") :
       waiters[i].debAtArm # NoTimer
         => Elapsed(waiters[i]) <= Min(waiters[i].debAtArm, waiters[i].arg)
  /\ \A r \in settled :
       (r.kind = "idle" /\ r.debAtArm # NoTimer)
         => /\ r.state = "resolved"
            /\ r.elapsed = Min(r.debAtArm, r.arg)
            /\ r.via = "debounce" => r.elapsed = r.debAtArm
            /\ r.via = "timeout" => r.elapsed = r.arg

\* A waiter armed some time after the chunk was released by that chunk's
\* debounce fire, before its own timeout.
C6_Witness ==
  \E r \in settled :
    /\ r.kind = "idle" /\ r.via = "debounce"
    /\ r.debAtArm # NoTimer /\ r.debAtArm < IDLE_DEBOUNCE
    /\ r.elapsed = r.debAtArm /\ r.elapsed < r.arg

\* C7: on a running session every handled chunk leaves exactly one debounce
\* pending, a fresh one of 60 ms; at most one debounce is pending at any
\* time; a quiescence fire happens only 60 ms after the last chunk, and at
\* most once per burst; once the last chunk's debounce is no longer pending
\* it has fired exactly once.
C7_OneFirePerBurst ==
  /\ [](/\ Cardinality(DOMAIN debounces) <= 1
        /\ fires <= 1
        /\ (~closed /\ idleTimer # Undefined /\ ~DebouncePending) => fires = 1)
  /\ [][/\ termFed' # termFed => debounces' = (idleTimer' :> IDLE_DEBOUNCE)
        /\ fires' > fires => sinceNotify = IDLE_DEBOUNCE]_vars

\* A burst of at least two chunks has ended in one quiescence fire.
C7_Witness == burst >= 2 /\ fires = 1 /\ ~closed

\* C8: waitForData succeeds at once if data has been received; otherwise the
\* waiter is resolved by the first chunk the handler takes, within its
\* timeout, and is rejected exactly when its timeout elapses with no chunk
\* taken; a settled waiter is never settled again.
C8_WaitForData ==
  /\ \A i \in PendingWaiters("data") :
       ~hasReceivedData /\ waiters[i].timer >= 0
  /\ \A r \in settled :
       r.kind = "data"
         => /\ r.was = "pending"
            /\ r.via \in {"immediate", "data", "timeout"}
            /\ r.via = "immediate" => (r.hadData /\ r.state = "resolved")
            /\ r.via = "data"
                 => (~r.hadData /\ r.state = "resolved" /\ r.elapsed <= r.arg)
            /\ r.via = "timeout"
                 => (~r.hadData /\ r.state = "rejected" /\ r.elapsed = r.arg)

\* A first-data waiter was woken by the first chunk some time after arming.
C8_Witness ==
  \E r \in settled :
    r.kind = "data" /\ r.via = "data" /\ r.state = "resolved" /\ r.elapsed > 0

\* C9: the session's, the emulator's and the PTY's geometry agree in every
\* state, and a step that changes any of them is a resize, which sets all
\* three at once.
C9_GeometryAgrees ==
  /\ [](termSize = <<cols, rows>> /\ ptySize = <<cols, rows>>)
  /\ [][geomVars' # geomVars => \E sz \in Sizes : Resize(sz[1], sz[2])]_vars

\* The session was resized away from its launch geometry, with a quiescence
\* waiter in flight.
C9_Witness ==
  /\ <<cols, rows>> # <<DEFAULT_COLS, DEFAULT_ROWS>>
  /\ PendingWaiters("idle") # {}

C19_CtrlLetter ==
  (task.kind = "getKeyCode" /\ K_ctrl \in Range(task.arg))
    => \A i \in 1..Len(task.arg) :
         (Len(task.arg[i]) = 1 /\ task.arg[i][1] \in 97..122)
           => task.out = <<task.arg[i][1] - 96>>

\* ctrl+shift+alt+meta+z was encoded as the byte 26.
C19_Witness ==
  /\ task.kind = "getKeyCode"
  /\ task.arg = <<K_ctrl, K_alt, K_shift, K_meta, <<122>>>>
  /\ task.out = <<26>>

\* C20: for K in enter, return, tab, backspace, escape, esc and a chord with
\* at least one of ctrl, alt, shift, the encoding is ESC [ keycode ; m u with
\* keycode 13, 13, 9, 127, 27, 27 and m = 1 + shift + 2 alt + 4 ctrl, in
\* decimal digits.
C20_CsiU ==
  LET digits == (<<101, 110, 116, 101, 114>> :> <<49, 51>>)
                  @@ (<<114, 101, 116, 117, 114, 110>> :> <<49, 51>>)
                  @@ (<<116, 97, 98>> :> <<57>>)
                  @@ (<<98, 97, 99, 107, 115, 112, 97, 99, 101>> :> <<49, 50, 55>>)
                  @@ (<<101, 115, 99, 97, 112, 101>> :> <<50, 55>>)
                  @@ (<<101, 115, 99>> :> <<50, 55>>)
      c == K_ctrl \in Range(task.arg)
      a == K_alt \in Range(task.arg)
      h == K_shift \in Range(task.arg)
      m == 1 + (IF h THEN 1 ELSE 0) + (IF a THEN 2 ELSE 0) + (IF c THEN 4 ELSE 0)
  IN  (task.kind = "getKeyCode" /\ (c \/ a \/ h))
        => \A i \in 1..Len(task.arg) :
             task.arg[i] \in DOMAIN digits
               => task.out = <<27, 91>> \o digits[task.arg[i]] \o <<59, 48 + m, 117>>

\* ctrl+shift+alt+backspace was encoded as ESC [ 1 2 7 ; 8 u.
C20_Witness ==
  /\ task.kind = "getKeyCode"
  /\ task.arg = <<K_ctrl, K_alt, K_shift, <<98, 97, 99, 107, 115, 112, 97, 99, 101>>>>
  /\ task.out = <<27, 91, 49, 50, 55, 59, 56, 117>>

\* C16: clickAt(x, y) writes the SGR press ESC [ < 0 ; x+1 ; y+1 M and, in the
\* same uninterrupted step, the release ESC [ < 0 ; x+1 ; y+1 m: nothing else
\* is written to the PTY and no chunk is fed to the emulator between the two,
\* whatever else is in flight, and the quiescence wait is armed only then.  In
\* the write log every clickAt press is directly followed by its release.
C16_ClickAtPressRelease ==
  /\ [](\A i \in 1..Len(ptyWrites) :
          (ptyWrites[i].op = "clickAt" /\ ptyWrites[i].data[Len(ptyWrites[i].data)] = 77)
            => /\ i < Len(ptyWrites)
               /\ ptyWrites[i + 1].op = "clickAt"
               /\ ptyWrites[i + 1].data =
                    [ptyWrites[i].data EXCEPT ![Len(ptyWrites[i].data)] = 109])
  /\ [][LET wire == (<<0, 0>> :> <<27, 91, 60, 48, 59, 49, 59, 49>>)
                      @@ (<<9, 3>> :> <<27, 91, 60, 48, 59, 49, 48, 59, 52>>)
            entry(p, final) == [op |-> "clickAt", data |-> wire[p] \o <<final>>,
                                closed |-> closed]
            armed == \E w \in DOMAIN waiters :
                       /\ waiters[w].state = "free"
                       /\ waiters'[w].state = "pending"
                       /\ waiters'[w].op = "clickAt"
                       /\ \A v \in DOMAIN waiters \ {w} : waiters'[v] = waiters[v]
        IN  /\ \A p \in ClickPositions :
                 ClickAt(p[1], p[2])
                   => /\ ptyWrites' = ptyWrites \o <<entry(p, 77), entry(p, 109)>>
                      /\ termFed' = termFed
                      /\ armed
            /\ (\E i \in 1..Len(ptyWrites') :
                    i > Len(ptyWrites) /\ ptyWrites'[i].op = "clickAt")
                  => /\ \E p \in ClickPositions :
                          ptyWrites' = ptyWrites \o <<entry(p, 77), entry(p, 109)>>
                     /\ termFed' = termFed
                     /\ armed]_vars

\* A clickAt(9, 3) has written its press and release while a waitIdle of
\* another caller is still pending and output has been fed to the emulator.
C16_Witness ==
  /\ termFed # <<>>
  /\ \E w \in DOMAIN waiters : waiters[w].state = "pending" /\ waiters[w].op = "waitIdle"
  /\ \E w \in DOMAIN waiters : waiters[w].state = "pending" /\ waiters[w].op = "clickAt"
  /\ \E i \in 1..Len(ptyWrites) :
       /\ i < Len(ptyWrites)
       /\ ptyWrites[i].data = <<27, 91, 60, 48, 59, 49, 48, 59, 52, 77>>
       /\ ptyWrites[i + 1].data = <<27, 91, 60, 48, 59, 49, 48, 59, 52, 109>>

\* C17: scrollUp(n, x, y) writes exactly n wheel presses ESC [ < 64 ; X ; Y M
\* (scrollDown: 65) and no release, where X is x + 1, or half of the current
\* cols (rounded down) plus one when x is omitted, and Y likewise from rows:
\* the geometry as last set by resize; then it arms its quiescence wait.
C17_ScrollWheel ==
  /\ [](\A i \in 1..Len(ptyWrites) :
          ptyWrites[i].op \in {"scrollUp", "scrollDown"}
            => \A j \in 1..Len(ptyWrites[i].data) : ptyWrites[i].data[j] # 109)
  /\ [][LET digits == (1 :> <<49>>) @@ (6 :> <<54>>) @@ (13 :> <<49, 51>>)
                        @@ (21 :> <<50, 49>>) @@ (41 :> <<52, 49>>)
            X(a) == IF a[2] = Omitted THEN (cols \div 2) + 1 ELSE a[2] + 1
            Y(a) == IF a[3] = Omitted THEN (rows \div 2) + 1 ELSE a[3] + 1
            event(b, a) == <<27, 91, 60, 54, b, 59>> \o digits[X(a)] \o <<59>>
                             \o digits[Y(a)] \o <<77>>
            events(b, a) == IF a[1] = 1 THEN event(b, a) ELSE event(b, a) \o event(b, a)
            armed(name) == \E w \in DOMAIN waiters :
                             /\ waiters[w].state = "free"
                             /\ waiters'[w].state = "pending"
                             /\ waiters'[w].op = name
                             /\ \A v \in DOMAIN waiters \ {w} : waiters'[v] = waiters[v]
            finals(data) == Cardinality({j \in 1..Len(data) : data[j] = 77})
        IN  \A a \in ScrollArgs :
              /\ ScrollUp(a[1], a[2], a[3])
                   => /\ ptyWrites' = Append(ptyWrites, [op |-> "scrollUp",
                                                         data |-> events(52, a),
                                                         closed |-> closed])
                      /\ finals(ptyWrites'[Len(ptyWrites')].data) = a[1]
                      /\ armed("scrollUp")
              /\ ScrollDown(a[1], a[2], a[3])
                   => /\ ptyWrites' = Append(ptyWrites, [op |-> "scrollDown",
                                                         data |-> events(53, a),
                                                         closed |-> closed])
                      /\ finals(ptyWrites'[Len(ptyWrites')].data) = a[1]
                      /\ armed("scrollDown")]_vars

\* After resize(41, 11), a scrollDown(2, 0) with no row has written two wheel
\* presses at 1 ; 6.
C17_Witness ==
  /\ cols = 41
  /\ rows = 11
  /\ \E i \in 1..Len(ptyWrites) :
       /\ ptyWrites[i].op = "scrollDown"
       /\ ptyWrites[i].data = <<27, 91, 60, 54, 53, 59, 49, 59, 54, 77,
                                27, 91, 60, 54, 53, 59, 49, 59, 54, 77>>

\* C18: type(text) writes the code points of text one per PTY write, in text
\* order, suspends on its 1 ms timer after each write, and arms its quiescence
\* wait only when every code point has been written; its writes concatenated
\* are text.
C18_TypePaced ==
  /\ [](task.kind = "type"
          => LET expected == (<<>> :> <<>>)
                               @@ (<<104, 105>> :> <<<<104>>, <<105>>>>)
                               @@ (<<55357, 56832, 33>> :> <<<<55357, 56832>>, <<33>>>>)
                 written == [j \in 1..Len(ptyWrites) |-> ptyWrites[j].data]
             IN  /\ \A j \in 1..Len(ptyWrites) : ptyWrites[j].op = "type"
                 /\ task.i <= Len(expected[task.arg])
                 /\ written = SubSeq(expected[task.arg], 1, task.i)
                 /\ (task.pc = "sleeping" => task.i >= 1 /\ task.sleep \in {0, 1})
                 /\ ((\E w \in DOMAIN waiters : waiters[w].op = "type")
                       => task.i = Len(expected[task.arg]))
                 /\ (task.pc \in {"waiting", "done"}
                       => /\ task.i = Len(expected[task.arg])
                          /\ Concat(written) = task.arg))
  /\ [][/\ (task'.kind = "type" /\ ptyWrites' # ptyWrites)
               => /\ Len(ptyWrites') = Len(ptyWrites) + 1
                  /\ task'.pc = "sleeping"
                  /\ task'.sleep = 1
                  /\ waiters' = waiters
        /\ (\E w \in DOMAIN waiters : waiters'[w].op = "type" /\ waiters[w].op # "type")
              => /\ ptyWrites' = ptyWrites
                 /\ task'.pc = "waiting"
                 /\ task.pc \in {"idle", "sleeping"}]_vars

\* type of an emoji and "!" has returned, after two writes, with output fed
\* meanwhile.
C18_Witness ==
  /\ task.kind = "type"
  /\ task.pc = "done"
  /\ task.arg = <<55357, 56832, 33>>
  /\ Len(ptyWrites) = 2
  /\ termFed # <<>>

\* C15: captureFrames(keys, {frameCount, intervalMs}) writes the key code with
\* no quiescence wait, then collects frameCount frames in capture order, each
\* the projection of the screen at the moment it is taken, with a sleep of
\* intervalMs after every frame but the last, and arms its quiescence wait in
\* the step that takes the last frame, never before.
C15_CaptureFrames ==
  /\ [](task.kind = "captureFrames"
          => /\ ptyWrites = <<[op |-> "sendKey", data |-> <<97>>, closed |-> FALSE]>>
             /\ Len(task.out) <= task.count
             /\ (task.pc = "sleeping" => Len(task.out) >= 1 /\ Len(task.out) < task.count)
             /\ (task.pc \in {"waiting", "done"} => Len(task.out) = task.count)
             /\ ((\E w \in DOMAIN waiters : waiters[w].op = "captureFrames")
                   => Len(task.out) = task.count))
  /\ [][LET shown == IF termFed = <<>> THEN <<>> ELSE termFed[Len(termFed)]
            projection == (<<>> :> <<10>>)
                            @@ (<<Line_x>> :> <<10, 120>>)
                            @@ (<<Line_x, Line_ab>> :> <<10, 120, 10, 32, 32, 97, 98>>)
            armed == \E w \in DOMAIN waiters :
                       waiters'[w].op = "captureFrames" /\ waiters[w].op # "captureFrames"
        IN  /\ \A n \in FrameCounts :
                 CaptureFrames(<<K_a>>, n, Omitted)
                   => /\ task'.count = (IF n = Omitted THEN 5 ELSE n)
                      /\ task'.timeout = 10
                      /\ Len(task'.out) = 1
            /\ (task'.kind = "captureFrames" /\ task'.out # task.out)
                  => /\ task'.out = Append(task.out, projection[shown])
                     /\ termFed' = termFed
                     /\ IF Len(task'.out) < task'.count
                        THEN /\ task'.pc = "sleeping"
                             /\ task'.sleep = task'.timeout
                             /\ ~armed
                        ELSE /\ task'.pc = "waiting"
                             /\ task'.sleep = NoTimer
                             /\ armed
            /\ (task'.kind = "captureFrames" /\ (armed \/ task'.sleep > task.sleep))
                  => Len(task'.out) = Len(task.out) + 1]_vars

\* captureFrames with the default five frames has returned; the screen was
\* repainted twice while it ran, so its first and last frames differ.
C15_Witness ==
  /\ task.kind = "captureFrames"
  /\ task.pc = "done"
  /\ Len(task.out) = 5
  /\ task.out[1] = <<10>>
  /\ task.out[5] = <<10, 120, 10, 32, 32, 97, 98>>

\* C11: when click(pattern) without first examines a screen with more than
\* one match, matches on one line counted one by one, it fails with the
\* multiple-matches error carrying that count and writes nothing to the PTY.
C11_ClickMultiple ==
  /\ [](task.err = "multiple" => ptyWrites = <<>> /\ ~task.first /\ task.count > 1)
  /\ [][
        LET shown == IF termFed = <<>> THEN <<>> ELSE termFed[Len(termFed)]
            count == (<<>> :> 0) @@ (<<Line_x>> :> 0) @@ (<<Line_x, Line_ab>> :> 1)
                       @@ (<<Line_abab>> :> 2) @@ (<<Line_ab, Line_abab>> :> 3)
            examines == task.kind = "click" /\ task.pc = "polling" /\ task'.i = task.i + 1
        IN  (examines /\ ~task.first /\ count[shown] > 1)
              => /\ task'.pc = "failed"
                 /\ task'.err = "multiple"
                 /\ task'.count = count[shown]
                 /\ ptyWrites' = ptyWrites
                 /\ waiters' = waiters]_vars

\* click("ab") has failed on a screen whose one line holds two matches.
C11_Witness ==
  /\ task.kind = "click"
  /\ task.err = "multiple"
  /\ task.count = 2
  /\ task.seen = <<Line_abab>>

\* C12: when click(pattern) examines a screen with one match, or with several
\* and first set, it writes the SGR press and release for the first match in
\* row order, then column order, sent as x+1 ; y+1, and awaits quiescence.
C12_ClickFirstMatch ==
  [][
        LET shown == IF termFed = <<>> THEN <<>> ELSE termFed[Len(termFed)]
            count == (<<>> :> 0) @@ (<<Line_x>> :> 0) @@ (<<Line_x, Line_ab>> :> 1)
                       @@ (<<Line_abab>> :> 2) @@ (<<Line_ab, Line_abab>> :> 3)
            examines == task.kind = "click" /\ task.pc = "polling" /\ task'.i = task.i + 1
            cell == (<<Line_x, Line_ab>> :> <<51, 59, 50>>)
                      @@ (<<Line_abab>> :> <<49, 59, 49>>)
                      @@ (<<Line_ab, Line_abab>> :> <<51, 59, 49>>)
            event(final) == [op |-> "clickAt", closed |-> closed,
                             data |-> <<27, 91, 60, 48, 59>> \o cell[shown] \o <<final>>]
        IN  (examines /\ (count[shown] = 1 \/ (count[shown] > 1 /\ task.first)))
              => /\ ptyWrites' = ptyWrites \o <<event(77), event(109)>>
                 /\ task'.pc = "waiting"
                 /\ task'.err = "none"
                 /\ \E w \in DOMAIN waiters :
                      waiters'[w].state = "pending" /\ waiters'[w].op = "clickAt"]_vars

\* click("ab", {first: true}) has returned after clicking cell (2, 0) of a
\* screen with a match at column 2 of row 0 and at columns 0 and 3 of row 1.
C12_Witness ==
  /\ task.kind = "click"
  /\ task.pc = "done"
  /\ task.first
  /\ task.seen = <<Line_ab, Line_abab>>
  /\ ptyWrites[1].data = <<27, 91, 60, 48, 59, 51, 59, 49, 77>>
  /\ ptyWrites[2].data = <<27, 91, 60, 48, 59, 51, 59, 49, 109>>

\* C13: click(pattern, timeout) that examines a screen with no match polls
\* again (a wait of at most 15 ms) while less than timeout has elapsed and
\* fails with not-found once timeout has elapsed; when it fails with
\* not-found it has written nothing to the PTY and the screen it examined
\* last held no match.
C13_ClickNotFound ==
  /\ [](task.err = "notFound"
          => /\ task.pc = "failed"
             /\ task.elapsed >= task.timeout
             /\ ptyWrites = <<>>
             /\ task.seen \in {<<>>, <<Line_x>>})
  /\ [][
        LET shown == IF termFed = <<>> THEN <<>> ELSE termFed[Len(termFed)]
            count == (<<>> :> 0) @@ (<<Line_x>> :> 0) @@ (<<Line_x, Line_ab>> :> 1)
                       @@ (<<Line_abab>> :> 2) @@ (<<Line_ab, Line_abab>> :> 3)
            examines == task.kind = "click" /\ task.pc = "polling" /\ task'.i = task.i + 1
        IN  (examines /\ count[shown] = 0)
              => /\ ptyWrites' = ptyWrites
                 /\ task'.seen = shown
                 /\ IF task.elapsed < task.timeout
                    THEN /\ task'.pc = "polling"
                         /\ task'.err = "none"
                         /\ waiters'[task'.waiter].state = "pending"
                         /\ waiters'[task'.waiter].op = "click"
                         /\ waiters'[task'.waiter].delay <= 15
                    ELSE /\ task'.pc = "failed"
                         /\ task'.err = "notFound"
                         /\ waiters' = waiters]_vars

\* click("ab", {timeout: 40}) has failed with not-found after at least two
\* examinations of a painted screen without a match.
C13_Witness ==
  /\ task.kind = "click"
  /\ task.err = "notFound"
  /\ task.timeout = 40
  /\ task.i >= 2
  /\ task.seen = <<Line_x>>

\* C14: text() that is not immediate returns the first polled projection that
\* satisfies waitFor; once timeout has elapsed it evaluates waitFor on the
\* projection of the screen as it then is, returns it if it passes and fails
\* with the timeout error otherwise; a projection it returns satisfies
\* waitFor.
C14_TextPolls ==
  /\ [](task.kind = "text"
          => /\ (task.pc = "done"
                   => IF task.arg = <<>>
                      THEN task.out \in {<<10, 120>>, <<10, 120, 10, 32, 32, 97, 98>>,
                                         <<10, 97, 98, 32, 97, 98>>,
                                         <<10, 32, 32, 97, 98, 10, 97, 98, 32, 97, 98>>}
                      ELSE task.out \in {<<10, 120, 10, 32, 32, 97, 98>>,
                                         <<10, 97, 98, 32, 97, 98>>,
                                         <<10, 32, 32, 97, 98, 10, 97, 98, 32, 97, 98>>})
             /\ (task.pc = "failed" => task.err = "timeout" /\ task.elapsed >= task.timeout))
  /\ [][LET shown == IF termFed = <<>> THEN <<>> ELSE termFed[Len(termFed)]
            projection == (<<>> :> <<10>>)
                            @@ (<<Line_x>> :> <<10, 120>>)
                            @@ (<<Line_x, Line_ab>> :> <<10, 120, 10, 32, 32, 97, 98>>)
                            @@ (<<Line_abab>> :> <<10, 97, 98, 32, 97, 98>>)
                            @@ (<<Line_ab, Line_abab>>
                                  :> <<10, 32, 32, 97, 98, 10, 97, 98, 32, 97, 98>>)
            holds == IF task'.arg = <<>>
                     THEN shown # <<>>
                     ELSE shown \in {<<Line_x, Line_ab>>, <<Line_abab>>, <<Line_ab, Line_abab>>}
            polls == task.kind = "text" /\ task.pc = "polling" /\ task'.i = task.i + 1
            called == task.pc = "idle" /\ task'.kind = "text"
            returns == task'.pc = "done" /\ task'.out = projection[shown]
            fails == task'.pc = "failed" /\ task'.err = "timeout"
                       /\ task'.out = projection[shown]
            again == task'.pc = "polling" /\ waiters'[task'.waiter].op = "text"
                       /\ waiters'[task'.waiter].state = "pending"
        IN  /\ polls => IF holds THEN returns
                        ELSE IF task.elapsed < task.timeout THEN again
                        ELSE fails
            /\ called => IF 0 < task'.timeout THEN again
                         ELSE IF holds THEN returns
                         ELSE fails]_vars

\* waitForText("ab") has returned the projection of a screen with a match
\* after an earlier poll whose projection did not satisfy it.
C14_Witness ==
  /\ task.kind = "text"
  /\ task.pc = "done"
  /\ task.arg = Pattern_ab
  /\ task.i >= 2
  /\ task.out = <<10, 120, 10, 32, 32, 97, 98>>

\* C21: a chord made only of modifiers (any of ctrl, alt, shift, meta, or no
\* key at all) encodes to the empty string; press of it returns at once,
\* having written nothing to the PTY and armed no quiescence waiter.
C21_ModifiersOnly ==
  /\ []((task.kind = "press"
           /\ \A k \in 1..Len(task.arg) :
                task.arg[k] \in {<<99, 116, 114, 108>>, <<97, 108, 116>>,
                                 <<115, 104, 105, 102, 116>>, <<109, 101, 116, 97>>})
          => /\ task.out = <<>>
             /\ task.pc = "done"
             /\ ptyWrites = <<>>
             /\ \A w \in DOMAIN waiters : waiters[w].op # "press")
  /\ [][(task.pc = "idle" /\ task'.kind = "press" /\ task'.out = <<>>)
          => /\ ptyWrites' = ptyWrites
             /\ waiters' = waiters
             /\ idleResolvers' = idleResolvers]_vars

\* press(['ctrl', 'alt', 'shift', 'meta']) has returned on a session that has
\* received output.
C21_Witness ==
  /\ task.kind = "press"
  /\ task.pc = "done"
  /\ task.arg = <<K_ctrl, K_alt, K_shift, K_meta>>
  /\ termFed # <<>>

\* C22, as claimed: launchTerminal that waits for data returns only after the
\* first chunk has arrived and a debounce fire has followed it, and fails when
\* no chunk arrives within the data timeout.
C22_ReturnsAfterDebounceFire ==
  [][(task.kind = "launch" /\ task.first /\ task.pc # "done" /\ task'.pc = "done")
       => /\ termFed # <<>>
          /\ \E r \in settled : r.id = task.waiter /\ r.via = "debounce"]_vars

\* C22, amended: launchTerminal that waits for data returns only after the
\* first chunk has arrived and its waitIdle() has ended, by a debounce fire or
\* by the 500 ms timeout of waitIdle; it fails, returning no session, exactly
\* when no chunk has arrived at the data timeout.
C22_ReturnsAfterDataAndWaitIdle ==
  /\ [](task.kind = "launch" /\ task.first /\ task.pc \in {"waiting", "done"}
          => hasReceivedData /\ termFed # <<>>)
  /\ [][ /\ (task.kind = "launch" /\ task.first /\ task.pc # "done" /\ task'.pc = "done")
               => /\ task.pc = "waiting"
                  /\ \E r \in settled :
                       /\ r.id = task.waiter
                       /\ r.kind = "idle"
                       /\ r.state = "resolved"
                       /\ \/ r.via = "debounce"
                          \/ r.via = "timeout" /\ r.elapsed = 500
         /\ (task.kind = "launch" /\ task.pc # "failed" /\ task'.pc = "failed")
              => /\ task.pc = "awaitData"
                 /\ termFed = <<>>
                 /\ \E r \in settled :
                      /\ r.id = task.waiter
                      /\ r.state = "rejected"
                      /\ r.via = "timeout"
                      /\ r.elapsed = task.timeout
         /\ (task.kind = "launch" /\ task.pc = "awaitData" /\ task'.pc = "waiting")
              => termFed # <<>> /\ \E r \in settled : r.id = task.waiter /\ r.via = "data"]_vars

\* launchTerminal has returned after two chunks and the debounce fire that
\* followed them.
C22_Witness ==
  /\ task.kind = "launch"
  /\ task.first
  /\ task.pc = "done"
  /\ Len(termFed) = 2
  /\ fires = 1

\* C23: when the child process exits the session is Closed, and from then on
\* every operation fails as after close(): nothing more is written to the
\* PTY and no new waiter is armed.
C23_ChildExitCloses ==
  /\ [](childExited => closed)
  /\ [][childExited => /\ ptyWrites' = ptyWrites
                        /\ \A w \in DOMAIN waiters :
                             waiters[w].state = "free" => waiters'[w].state = "free"]_vars

\* C24: a launch with a name that is registered fails with exit code 1 and
\* 'already exists', constructs no Session and leaves the registry and the
\* registered session as they were; and in every state, another launch in
\* flight or not, each name has at most one live Session, the registered one.
C24_LaunchDuplicateFails ==
  /\ [](\A n \in DOMAIN liveSessions :
          /\ liveSessions[n] <= 1
          /\ (n \in sessions <=> liveSessions[n] = 1))
  /\ [][(ctx' # ctx /\ ctx'.cmd = "launch" /\ ctx'.args[1] \in sessions)
         => /\ ctx'.exitCode = 1
            /\ ctx'.stderr = [kind |-> "AlreadyExists", session |-> ctx'.args[1]]
            /\ UNCHANGED <<sessions, liveSessions, hasReceivedData, idleTimer, debounces,
                           idleResolvers, dataResolvers, waiters, geomVars, ioVars,
                           lifeVars, task>>]_vars

\* A launch of s1 was refused as a duplicate while another launch of s1 was
\* still awaiting the child's first output.
C24_Witness ==
  /\ ctx.cmd = "launch" /\ ctx.exitCode = 1 /\ ctx.stderr.kind = "AlreadyExists"
  /\ task.kind = "launchCommand" /\ task.pc = "awaitData"
  /\ liveSessions["s1"] = 1

C26_CloseUnregisters ==
  /\ [][\A opt \in SessionOpts :
          (opt \in sessions /\ CloseCommand(opt))
          => /\ closed' /\ ptyKills' = ptyKills + 1
             /\ sessions' = sessions \ {opt}
             /\ ctx'.exitCode = 0]_vars
  /\ [][SessionsCommand
         => /\ ctx'.names = {n \in DOMAIN liveSessions : liveSessions[n] > 0}
            /\ (ctx'.stdout = "No active sessions"
                  <=> \A n \in DOMAIN liveSessions : liveSessions[n] = 0)]_vars
  /\ [][\A wait \in BOOLEAN :
          ("s1" \notin sessions /\ LaunchCommand("s1", wait, 100))
          => "s1" \in sessions' /\ ~closed' /\ ptyKills' = 0]_vars

\* s1 was closed and launched again, and the sessions command lists it.
C26_Witness ==
  /\ ctx.cmd = "sessions" /\ ctx.names = {"s1"}
  /\ ~closed /\ task.kind = "launchCommand" /\ task.pc = "done"

\* C27: on a running session the handler feeds each chunk it is given to the
\* emulator once, behind the chunks fed before; a first-data waiter is woken
\* only in a handler call that has fed its chunk, and a quiescence waiter is
\* released by a debounce fire only with every chunk handled so far fed.
C27_FedInOrderBeforeWake ==
  /\ [][\A chunk \in Chunks \cup {"y"} :
          (~closed /\ OnData(chunk)) => termFed' = Append(termFed, chunk)]_vars
  /\ [][\A r \in settled' :
          r.via = "data" => /\ Len(termFed') = Len(termFed) + 1
                            /\ SubSeq(termFed', 1, Len(termFed)) = termFed]_vars
  /\ [][\A r \in settled' :
          r.via = "debounce" => termFed # <<>> /\ termFed' = termFed]_vars

\* A quiescence waiter was released by the debounce of the second of two
\* different chunks.
C27_Witness ==
  /\ termFed = <<"y", "x">>
  /\ \E r \in settled : r.via = "debounce" /\ r.state = "resolved"

\* C28: whatever the wrapper, before onData is called every chunk read is in
\* the buffer, in read order, and none has been delivered; once onData has
\* been called the chunks delivered to the callback are the chunks read, in
\* read order, each once.
C28_NoOutputLost ==
  IF factory.dataCallback
  THEN factory.delivered = factory.read /\ factory.dataBuffer = <<>>
  ELSE factory.dataBuffer = factory.read /\ factory.delivered = <<>>

\* C29: a debounce fire on a running session releases every quiescence
\* waiter that is pending, in that one step, each from pending to resolved
\* with its own timer cancelled, and leaves no resolver behind for a waiter
\* armed later; the resolvers are called in the order of idleResolvers, which
\* is the order in which the pending waiters were armed.
C29_FireReleasesAllFifo ==
  /\ [](\A i, j \in 1..Len(idleResolvers) :
          (i < j /\ waiters[idleResolvers[i]].state = "pending"
                 /\ waiters[idleResolvers[j]].state = "pending")
          => Elapsed(waiters[idleResolvers[i]]) >= Elapsed(waiters[idleResolvers[j]]))
  /\ [][fires' = fires + 1
         => /\ \A w \in DOMAIN waiters :
                 (waiters[w].state = "pending" /\ waiters[w].kind = "idle")
                 => /\ \E r \in settled' : /\ r.id = w /\ r.via = "debounce"
                                            /\ r.was = "pending" /\ r.state = "resolved"
                    /\ waiters'[w].state # "pending"
                    /\ waiters'[w].timer = NoTimer
            /\ idleResolvers' = <<>>]_vars
  /\ [][\A r \in settled' : r.via = "debounce"
          => /\ fires' = fires + 1
             /\ waiters[r.id].state = "pending" /\ r.id \in Range(idleResolvers)]_vars

\* One fire released two waiters that were armed at different times.
C29_Witness ==
  \E r1, r2 \in settled :
    /\ r1.via = "debounce" /\ r2.via = "debounce"
    /\ r1.state = "resolved" /\ r2.state = "resolved"
    /\ r1.elapsed > r2.elapsed

\* C30: once close() has been called, an operation that was in flight
\* writes nothing more to the PTY, reads the emulator no more (no further
\* frame is captured) and does not return normally: it ends failed with the
\* closed-session error.
C30_InFlightStopsAtClose ==
  /\ [][closed => ptyWrites' = ptyWrites]_vars
  /\ [][closed => task'.out = task.out]_vars
  /\ [][(closed /\ task'.pc # task.pc) => (task'.pc = "failed" /\ task'.err = "closed")]_vars

\* C31: a click or text call that has been made ends, with its result or
\* with an error.
C31_WaitsTerminate ==
  (task.kind \in {"click", "text"} /\ TaskRunning) ~> (task.pc \in {"done", "failed"})

\* C32: the PTY writes of one operation are not interleaved with those of
\* another: between two writes of the type call of a run there is no write
\* of any other operation.
C32_WritesNotInterleaved ==
  \A i, j, k \in 1..Len(ptyWrites) :
    (i < j /\ j < k /\ ptyWrites[i].op = "type" /\ ptyWrites[k].op = "type")
    => ptyWrites[j].op = "type"

\* C33: a chunk on which the emulator's feed fails is dropped inside the
\* handler: no exception leaves the handler, and that handler call still
\* sets the first-data flag, empties the list of first-data waiters and
\* starts a new 60 ms debounce, feeding nothing.
C33_FeedFailureSwallowed ==
  /\ [](~factory.thrown)
  /\ [][\A chunk \in Chunks :
          OnDataFeedThrows(chunk)
          => /\ hasReceivedData' /\ dataResolvers' = <<>>
             /\ DebounceLeft' = IDLE_DEBOUNCE
             /\ termFed' = termFed]_vars

\* C34 as stated: with a style filter and trimEnd false, the projected line
\* is as long as the right-trimmed unfiltered line.
C34_SameLengthAsUnfiltered ==
  task.kind = "buildTextFromJson"
  => Len(Tail(task.out)) = Len(trimEndLine(lineText(task.arg.spans, "any")))

\* C34, amended: on a line without wide glyphs (every span has as many
\* characters as cells) the projected line is at most as long as the
\* right-trimmed unfiltered line, every non-blank character of a matching
\* span is in it at its original index, and every other position of it
\* holds a blank.
C34_LayoutPreserved ==
  (task.kind = "buildTextFromJson"
     /\ \A i \in 1..Len(task.arg.spans) :
          Len(task.arg.spans[i].text) = task.arg.spans[i].width)
  => LET spans == task.arg.spans
         only == task.arg.only
         raw == lineText(spans, "any")
         out == Tail(task.out)
         mask == lineText([i \in 1..Len(spans) |->
                   [spans[i] EXCEPT !.text =
                      Repeat(<<IF only = "any" \/ (only = "bold") = spans[i].bold
                               THEN 1 ELSE 0>>, Len(spans[i].text))]], "any")
     IN  /\ Len(out) <= Len(trimEndLine(raw))
         /\ \A q \in 1..Len(raw) :
              IF mask[q] = 1 /\ ~IsSpace(raw[q])
              THEN q <= Len(out) /\ out[q] = raw[q]
              ELSE q <= Len(out) => IsSpace(out[q])

\* A two-cell span that does not match was replaced by two blanks, and the
\* matching letter behind it kept its index.
C34_Witness ==
  /\ task.kind = "buildTextFromJson" /\ task.arg.only = "bold"
  /\ task.arg.spans = <<[text |-> <<99, 100>>, width |-> 2, bold |-> FALSE],
                        [text |-> <<97>>, width |-> 1, bold |-> TRUE]>>
  /\ task.out = <<10, 32, 32, 97>>

\* C35: the list of quiescence resolvers names only waiters whose wait has
\* not completed, so it is never longer than the number of pending
\* quiescence waiters.
C35_ListHoldsPendingOnly ==
  /\ \A k \in 1..Len(idleResolvers) : waiters[idleResolvers[k]].state = "pending"
  /\ Len(idleResolvers) <= Cardinality(PendingWaiters("idle"))

\* C36: a waitIdle that completes before its own timeout has elapsed
\* completes in a state where no debounce is pending, also when it was armed
\* before the first chunk and a chunk arrived while it waited.
C36_EarlyCompletionIsQuiescent ==
  \A r \in settled :
    (r.kind = "idle" /\ r.op = "waitIdle" /\ r.state = "resolved"
       /\ r.elapsed < r.arg /\ ~r.closed /\ ~r.armedClosed)
      => ~DebouncePending

\* C37: the step of click() that writes the mouse events is the step that
\* read the grid: no chunk is fed in it, the events are the press and the
\* release at the first match on the grid the emulator shows in that step,
\* and nothing else is written.
C37_ClickOnMatchedSnapshot ==
  [][(task.kind = "click" /\ ptyWrites' # ptyWrites)
       => LET shown == IF termFed' = <<>> THEN <<>> ELSE termFed'[Len(termFed')]
              ms == Matches(shown, task.arg, 1)
          IN  /\ termFed' = termFed
              /\ task.pc = "polling"
              /\ task'.seen = shown
              /\ ms # <<>>
              /\ ptyWrites' = ptyWrites
                    \o <<[op |-> "clickAt", closed |-> closed,
                          data |-> SgrMouse(0, ms[1].x + 1, ms[1].y + 1, 77)],
                         [op |-> "clickAt", closed |-> closed,
                          data |-> SgrMouse(0, ms[1].x + 1, ms[1].y + 1, 109)]>>]_vars

\* click() has written its events for the second of two different repaints,
\* the one on the grid when it looked.
C37_Witness ==
  /\ task.kind = "click"
  /\ task.pc = "waiting"
  /\ Len(termFed) = 2
  /\ termFed[1] # termFed[2]
  /\ Matches(termFed[1], task.arg, 1) # Matches(termFed[2], task.arg, 1)
  /\ task.seen = termFed[2]
  /\ Len(ptyWrites) = 2

\* C38: the step of captureFrames() that writes the key feeds no chunk and
\* takes the first frame, the projection of the grid as it was at the call;
\* with frameCount 0 the key is written all the same, no frame is taken and
\* the call returns the empty list.
C38_FirstFrameIsGridAtCall ==
  /\ [][\A n \in {0, 1, 2} :
          CaptureFrames(<<K_a>>, n, Omitted)
            => /\ termFed' = termFed
               /\ ptyWrites' = Append(ptyWrites, [op |-> "sendKey", data |-> <<97>>,
                                                  closed |-> closed])
               /\ task'.out = IF n = 0 THEN <<>> ELSE <<cleanupText(getJson)>>
               /\ (n = 0) => task'.pc = "waiting"]_vars
  /\ []((task.kind = "captureFrames" /\ task.count = 0)
          => (task.out = <<>> /\ Len(ptyWrites) = 1))
  /\ []((task.kind = "captureFrames" /\ task.count > 0 /\ ~closed)
          => (task.out # <<>> /\ \E k \in 0..Len(termFed) :
                task.out[1] = cleanupText(IF k = 0 THEN <<>> ELSE termFed[k])))

\* captureFrames was called on a painted screen that was repainted while the
\* call slept: the first frame is the screen of the call, the second is not.
C38_Witness ==
  /\ task.kind = "captureFrames"
  /\ task.pc = "done"
  /\ Len(termFed) = 2
  /\ Len(task.out) = 2
  /\ task.out[1] = cleanupText(termFed[1])
  /\ task.out[2] = cleanupText(termFed[2])
  /\ task.out[1] # task.out[2]

\* C39: a chord whose keys all pass isValidKey is encoded as the chord of
\* their lower-case names: no accepted name falls through to the branch of
\* getKeyCode that writes the name itself.
C39_ValidatedKeysCanonical ==
  (task.kind = "getKeyCode" /\ \A i \in 1..Len(task.arg) : isValidKey(task.arg[i]))
    => task.out = getKeyCode([i \in 1..Len(task.arg) |-> toLowerCase(task.arg[i])])

\* C40: when the launch command has replied with a failure because no data
\* arrived within its timeout, no session is registered under the name it was
\* given and no child of that name is running, so the name can be launched
\* again at once.
C40_FailedLaunchLeavesNothing ==
  (task.kind = "launchCommand" /\ task.pc = "failed" /\ task.err = "dataTimeout")
    => \A n \in SessionOpts \ {""} : (n \notin sessions /\ liveSessions[n] = 0)

====
